---- MODULE Spec2Model ----
(***************************************************************************)
(* Model of the storestar rating ledger.                                   *)
(*                                                                         *)
(* Server side: the Express handlers of server/src/index.ts running        *)
(* concurrently against the relational store declared by the Prisma        *)
(* migration (tables User, Store, Rating; unique indexes on User.email and *)
(* on Rating(userId, storeId); foreign keys Rating -> User, Rating ->      *)
(* Store, Store -> User).  Each `await prisma...` is one atomic step on    *)
(* the database, and handlers of different requests interleave between     *)
(* their awaits.                                                           *)
(*                                                                         *)
(* Client side: the in-browser ledger of src/contexts/DataContext.tsx and  *)
(* the rating dialog of the user store list, which work on React state     *)
(* seeded with demo data and never talk to the server.                     *)
(***************************************************************************)
EXTENDS Integers, Sequences, FiniteSets, TLC

(***************************************************************************)
(* Bounds of the model.                                                    *)
(***************************************************************************)
\* the last CURRENT_TIMESTAMP tick explored with concurrent requests (the
\* clock starts at 1 and ticks at every write)
MaxTime == 3

\* the last tick explored with one request at a time
MaxSeqTime == 4

\* the last tick explored with one writer and one listing request
MaxListTime == 4

\* the last tick explored in the scenario of one store
MaxScenarioTime == 4

\* the last tick explored with every handler, one request at a time
MaxAccessTime == 3

\* request-handling contexts that may be in flight at the same time
Reqs == {"r1", "r2"}

(***************************************************************************)
(* Values.                                                                 *)
(***************************************************************************)
Roles == {"admin", "normal_user", "store_owner"}

\* a JSON number of a request body, kept as an exact fraction num/den
Num(n, d) == [num |-> n, den |-> d]

\* the rating values of the request bodies explored: below, inside and above
\* the range, and the non-integer 4.5
RatingInputs == {Num(n, 1) : n \in {0, 3, 5, 6}} \cup {Num(9, 2)}
SeqRatingInputs == {Num(n, 1) : n \in {0, 2, 4, 5, 6}} \cup {Num(9, 2)}


NoRating == [id |-> 0, userId |-> "-", storeId |-> "-", rating |-> 0, createdAt |-> 0]

\* Authorization headers: absent, not verifiable, or a token signed for a user
NoHeader == [kind |-> "none", id |-> "-", role |-> "-"]
BadToken == [kind |-> "bad", id |-> "-", role |-> "-"]
signToken(u) == [kind |-> "valid", id |-> u.id, role |-> u.role]

VARIABLES
    users,      \* table User: records [id, email, role, password]
    stores,     \* table Store: records [id, ownerId]
    ratings,    \* table Rating: records [id, userId, storeId, rating, createdAt]
    now,        \* CURRENT_TIMESTAMP of the database, a logical clock
    req,        \* the requests in flight, one record per handling context
    cRatings,   \* client: the `ratings` state of DataProvider, an array
    cNow,       \* client: the last value Date.now() returned
    cUsers,     \* client: the `users` state of DataProvider, an array
    cStores,    \* client: the `stores` state of DataProvider, an array
    view,       \* client: the admin table on screen and its component state
    call,       \* client: the server-backed DataProvider call awaiting its fetch
    auth        \* client: mockUsers and the `user` state of AuthProvider

\* the client's state, which no server handler touches
client == <<cRatings, cNow, cUsers, cStores, view, call, auth>>

vars == <<users, stores, ratings, now, req, cRatings, cNow, cUsers, cStores, view,
         call, auth>>

Idle == [op |-> "idle", pc |-> "idle"]

(***************************************************************************)
(* validators.ts                                                           *)
(***************************************************************************)
\* ratingSchema: z.object({ rating: z.number().min(1).max(5) })
ratingSchema(v) == v.num >= 1 * v.den /\ v.num <= 5 * v.den

(***************************************************************************)
(* The storage layer: Prisma client calls on the Rating table.             *)
(***************************************************************************)
\* a Float that is not a whole number does not fit the INTEGER column
IsInt(v) == v.num % v.den = 0
ToInt(v) == v.num \div v.den

\* (mutant) a lookup keyed on the store alone
ratingFindUnique_byStore(userId, storeId) ==
    IF \E r \in ratings : r.storeId = storeId
    THEN CHOOSE r \in ratings : r.storeId = storeId
    ELSE NoRating

\* prisma.rating.findUnique({ where: { userId_storeId } })
ratingFindUnique(userId, storeId) ==
    IF \E r \in ratings : r.userId = userId /\ r.storeId = storeId
    THEN CHOOSE r \in ratings : r.userId = userId /\ r.storeId = storeId
    ELSE NoRating

\* (mutant) the table without its unique index
RatingUniqueOk_noIndex(userId, storeId) == TRUE

\* unique index Rating_userId_storeId_key
RatingUniqueOk(userId, storeId) ==
    ~ \E r \in ratings : r.userId = userId /\ r.storeId = storeId

\* foreign keys Rating_userId_fkey and Rating_storeId_fkey
RatingFkOk(userId, storeId) ==
    /\ \E u \in users : u.id = userId
    /\ \E s \in stores : s.id = storeId

\* the id of a new row: fresh, as rows are never deleted
NewRatingId == Cardinality(ratings) + 1

(***************************************************************************)
(* Initial state: the database of a running deployment, holding the demo   *)
(* accounts (an administrator, a store owner, two normal users) and one    *)
(* store without ratings.                                                  *)
(***************************************************************************)
User(id, name, email, address, role, password) ==
    [id |-> id, name |-> name, email |-> email, address |-> address,
     role |-> role, password |-> password]

\* hashPassword / comparePassword (bcrypt): the stored credential is not the
\* password, and only the password it was made from compares equal to it
hashPassword(password) == <<"bcrypt", password>>
comparePassword(password, hash) == hash = <<"bcrypt", password>>

InitUsers ==
    { User("adm", "Ada", "admin@x", "Elm St", "admin", hashPassword("Admin@123")),
      User("own", "Otto", "owner@x", "Oak St", "store_owner", hashPassword("Owner@123")),
      User("u1", "Town", "user1@x", "Elm St", "normal_user", hashPassword("User@1234")),
      User("u2", "Ugo", "user2@x", "Oak St", "normal_user", hashPassword("User@1234")) }

\* ids the storage layer hands out to new User and Store rows, in order
UserIdPool == <<"u3", "u4", "u5", "u6", "u7">>
StoreIdPool == <<"s2", "s3", "s4", "s5", "s6">>
NewUserId == UserIdPool[Cardinality(users) - Cardinality(InitUsers) + 1]
NewStoreId == StoreIdPool[Cardinality(stores)]

Store(id, name, address, ownerId) ==
    [id |-> id, name |-> name, address |-> address, ownerId |-> ownerId]

InitStores == { Store("s1", "Otto Shop", "Oak St", "own") }

(***************************************************************************)
(* Client seed data of DataContext.tsx.  An id is kept as the number its   *)
(* string spells: "1", "2", "3" for the seed rows, String(Date.now()) for  *)
(* the rows added later.                                                   *)
(***************************************************************************)
\* Date.now() when the page loaded (any value above the seed ids)
DateNowAtLoad == 10

ClientRating(id, userId, storeId, rating, createdAt) ==
    [id |-> id, userId |-> userId, storeId |-> storeId, rating |-> rating,
     createdAt |-> createdAt]

\* the texts of the seed rows are shortened to a few characters
ClientUser(id, name, email, address, role, createdAt) ==
    [id |-> id, name |-> name, email |-> email, address |-> address,
     role |-> role, createdAt |-> createdAt]

initialUsers ==
    << ClientUser("1", "Ada", "admin@x", "Elm St", "admin", DateNowAtLoad),
       ClientUser("2", "Otto", "owner@x", "Oak St", "store_owner", DateNowAtLoad),
       ClientUser("3", "Town", "user1@x", "Elm St", "normal_user", DateNowAtLoad),
       ClientUser("4", "Ugo", "user2@x", "Oak St", "normal_user", DateNowAtLoad) >>

ClientStore(id, name, address, ownerId, createdAt) ==
    [id |-> id, name |-> name, address |-> address, ownerId |-> ownerId,
     createdAt |-> createdAt]

initialStores ==
    << ClientStore("1", "Otto Shop", "Oak St", "2", DateNowAtLoad),
       ClientStore("2", "Eco Food", "Elm St", "2", DateNowAtLoad) >>

\* mockUsers of AuthContext.tsx: the three demo accounts, with the emails
\* shortened as in initialUsers
MockUser(id, email, role, password) ==
    [id |-> id, email |-> email, role |-> role, password |-> password]
mockUsers ==
    << MockUser("1", "admin@x", "admin", "Admin@123"),
       MockUser("2", "owner@x", "store_owner", "Owner@123"),
       MockUser("3", "user1@x", "normal_user", "User@1234") >>

\* nobody is logged in
null == [id |-> "-", email |-> "-", role |-> "-"]
NoAuth == [mockUsers |-> mockUsers, user |-> null]

\* no admin table is on screen
NoView == [route |-> "-"]

\* no call of the server-backed DataProvider is awaiting its fetch
NoCall == [fn |-> "-"]

initialRatings ==
    << ClientRating(1, "3", "1", 4, DateNowAtLoad),
       ClientRating(2, "4", "1", 5, DateNowAtLoad),
       ClientRating(3, "3", "2", 3, DateNowAtLoad) >>

Init ==
    /\ users = InitUsers
    /\ stores = InitStores
    /\ ratings = {}
    /\ now = 1
    /\ req = [r \in Reqs |-> Idle]
    /\ cRatings = initialRatings
    /\ cNow = DateNowAtLoad
    /\ cUsers = initialUsers
    /\ cStores = initialStores
    /\ view = NoView
    /\ call = NoCall
    /\ auth = NoAuth

\* the Authorization headers explored: none, an unverifiable one, and the
\* tokens issued (at signup or login) to the users having one of the roles
Headers(roles) ==
    {NoHeader, BadToken} \cup {signToken(u) : u \in {x \in users : x.role \in roles}}

\* the :id segments explored: the stores there are, and an id of no store
StoreIds == {s.id : s \in stores} \cup {"sX"}

(***************************************************************************)
(* authMiddleware: 401 unless the header carries a verifiable token.       *)
(***************************************************************************)
\* (mutant) a middleware that lets every request through
authMiddleware_open(header) == TRUE

authMiddleware(header) == header.kind = "valid"

(***************************************************************************)
(* POST /stores/:id/ratings                                                *)
(***************************************************************************)
\* The handler's locals: me (the token payload), req.params.id and the
\* parsed body once read, the id of the row found (0 when findUnique gave
\* null; the handler reads nothing else of it), and the response once sent.
\* status 0 with err set: the awaited Prisma call rejected, which the handler
\* does not catch, so that it never answers (err names the rejection).
RatingReq(pc, header, storeId, v, existing, status, err, body) ==
    [op |-> "rating", pc |-> pc, auth |-> header, store |-> storeId, val |-> v,
     existing |-> existing, status |-> status, err |-> err, body |-> body]

NoNum == Num(0, 1)

\* the request arrives: authMiddleware, ratingSchema.safeParse, then the
\* awaited findUnique on (me.id, :id)
PostRatingBegin(r, header, storeId, v) ==
    /\ req[r] = Idle
    /\ req' = [req EXCEPT ![r] =
         IF ~authMiddleware(header)
         THEN RatingReq("done", header, "-", NoNum, 0, 401, "unauthorized", NoRating)
         ELSE IF ~ratingSchema(v)
         THEN RatingReq("done", header, "-", v, 0, 400, "invalid", NoRating)
         ELSE RatingReq("write", header, storeId, v,
                        ratingFindUnique(header.id, storeId).id, 0, "", NoRating)]
    /\ UNCHANGED <<users, stores, ratings, now, client>>

\* (mutant) an update that leaves the stored value as it was
ratingUpdate_keep(id, v) == ratings

\* (mutant) an update that also stamps the row with the current time
ratingUpdate_touch(id, v) ==
    { IF x.id = id THEN [x EXCEPT !.rating = ToInt(v), !.createdAt = now] ELSE x
        : x \in ratings }

\* (mutant) an update that inserts the new value as one more row of the pair
ratingUpdate_append(id, v) ==
    ratings \cup { [x EXCEPT !.id = NewRatingId, !.rating = ToInt(v), !.createdAt = now]
                     : x \in {y \in ratings : y.id = id} }

\* prisma.rating.update({ where: { id }, data: { rating } })
ratingUpdate(id, v) ==
    { IF x.id = id THEN [x EXCEPT !.rating = ToInt(v)] ELSE x : x \in ratings }

\* (mutant) a create that leaves the new row alone in the table
ratingCreate_only(userId, storeId, v) ==
    { [id |-> NewRatingId, userId |-> userId, storeId |-> storeId,
       rating |-> ToInt(v), createdAt |-> now] }

\* prisma.rating.create({ data: { userId, storeId, rating } })
ratingCreate(userId, storeId, v) ==
    ratings \cup { [id |-> NewRatingId, userId |-> userId, storeId |-> storeId,
                    rating |-> ToInt(v), createdAt |-> now] }

\* the rejection of a create by the storage layer, "" when it is accepted
ratingCreateError(userId, storeId, v) ==
    IF ~IsInt(v) THEN "PrismaClientValidationError"
    ELSE IF ~RatingFkOk(userId, storeId) THEN "P2003"
    ELSE IF ~RatingUniqueOk(userId, storeId) THEN "P2002"
    ELSE ""

\* the rejection of an update by the storage layer, "" when it is accepted
ratingUpdateError(id, v) ==
    IF ~IsInt(v) THEN "PrismaClientValidationError"
    ELSE IF ~ \E x \in ratings : x.id = id THEN "P2025"
    ELSE ""

\* the awaited update (a row was found) or create (none was), then res.json
PostRatingWrite(r) ==
    /\ req[r].op = "rating" /\ req[r].pc = "write"
    /\ LET q == req[r]
           me == q.auth
           error == IF q.existing # 0
                    THEN ratingUpdateError(q.existing, q.val)
                    ELSE ratingCreateError(me.id, q.store, q.val)
           rowId == IF q.existing # 0 THEN q.existing ELSE NewRatingId
       IN  IF error = ""
           THEN /\ ratings' = IF q.existing # 0
                              THEN ratingUpdate(q.existing, q.val)
                              ELSE ratingCreate(me.id, q.store, q.val)
                /\ now' = now + 1
                /\ \E row \in ratings' :
                     /\ row.id = rowId
                     /\ req' = [req EXCEPT ![r] =
                           [q EXCEPT !.pc = "done", !.status = 200, !.body = row]]
           ELSE /\ req' = [req EXCEPT ![r] = [q EXCEPT !.pc = "done", !.err = error]]
                /\ UNCHANGED <<ratings, now>>
    /\ UNCHANGED <<users, stores, client>>

\* the caller has its answer (or gave up waiting): the context is free again
RequestEnd(r) ==
    /\ req[r].pc = "done"
    /\ req' = [req EXCEPT ![r] = Idle]
    /\ UNCHANGED <<users, stores, ratings, now, client>>

(***************************************************************************)
(* Request bodies of signup and of the admin creations.  A field is kept   *)
(* by what the zod schemas of validators.ts look at: the length of a name  *)
(* or address, whether an email is well formed, the length of a password   *)
(* and whether it has an upper-case letter and a special character.  A     *)
(* name or address also has its text, which is what the row stores.        *)
(***************************************************************************)
Name(len) == [len |-> len, text |-> "New Name"]
Address(len) == [len |-> len, text |-> "New St"]
Email(addr, wellFormed) == [addr |-> addr, wellFormed |-> wellFormed]
Password(text, len, upper, special) ==
    [text |-> text, len |-> len, upper |-> upper, special |-> special]

\* passwordSchema: min(8).max(16).regex(/[A-Z]/).regex(special)
passwordSchema(p) == p.len >= 8 /\ p.len <= 16 /\ p.upper /\ p.special
\* emailSchema: z.string().email()
emailSchema(e) == e.wellFormed
\* nameSchema: z.string().min(20).max(60)
nameSchema(n) == n.len >= 20 /\ n.len <= 60
\* addressSchema: z.string().max(400)
addressSchema(a) == a.len <= 400

\* signupSchema
signupSchema(b) ==
    nameSchema(b.name) /\ emailSchema(b.email) /\ addressSchema(b.address)
        /\ passwordSchema(b.password)
\* addUserSchema
addUserSchema(b) == signupSchema(b) /\ b.role \in Roles
\* addStoreSchema: ownerId is z.string().min(1)
addStoreSchema(b) ==
    nameSchema(b.name) /\ addressSchema(b.address) /\ b.ownerId # ""

\* the bodies explored: well-formed ones, and one ill-formed in each field
GoodName == Name(20)
GoodAddress == Address(400)
GoodPassword == Password("Secret@99", 9, TRUE, TRUE)
GoodEmails == {Email("user1@x", TRUE), Email("new@x", TRUE)}
SignupBody(n, e, a, p) == [name |-> n, email |-> e, address |-> a, password |-> p]
SignupBodies ==
    {SignupBody(GoodName, e, GoodAddress, GoodPassword) : e \in GoodEmails}
    \cup {SignupBody(Name(19), Email("new@x", TRUE), GoodAddress, GoodPassword),
          SignupBody(GoodName, Email("new", FALSE), GoodAddress, GoodPassword),
          SignupBody(GoodName, Email("new@x", TRUE), Address(401), GoodPassword),
          SignupBody(GoodName, Email("new@x", TRUE), GoodAddress,
                     Password("secret@99", 9, FALSE, TRUE))}
AddUserBody(b, role) ==
    [name |-> b.name, email |-> b.email, address |-> b.address,
     password |-> b.password, role |-> role]
AddUserBodies ==
    {AddUserBody(b, role) : b \in SignupBodies, role \in {"normal_user", "store_owner"}}
    \cup {AddUserBody(SignupBody(GoodName, Email("new@x", TRUE), GoodAddress, GoodPassword),
                      role) : role \in {"admin", "owner"}}
AddStoreBodies ==
    {[name |-> GoodName, address |-> GoodAddress, ownerId |-> o] : o \in {"own", "uX", ""}}
    \cup {[name |-> Name(61), address |-> GoodAddress, ownerId |-> "own"]}

\* unique index User_email_key
UserEmailUniqueOk(addr) == ~ \E u \in users : u.email = addr
\* (mutant) a lookup that never finds the email
userExists_never(addr) == FALSE

\* prisma.user.findUnique({ where: { email } }) as the handlers use it
userExists(addr) == \E u \in users : u.email = addr
\* foreign key Store_ownerId_fkey
StoreFkOk(ownerId) == \E u \in users : u.id = ownerId

UserReq(op, pc, header, name, email, address, password, role, status, err) ==
    [op |-> op, pc |-> pc, auth |-> header, name |-> name, email |-> email,
     address |-> address, password |-> password, role |-> role,
     status |-> status, err |-> err]

\* (mutant) a role check every caller passes
IsAdmin_any(me) == TRUE

\* me.role !== "admin" of the /admin handlers, negated
IsAdmin(me) == me.role = "admin"

(***************************************************************************)
(* POST /auth/signup                                                       *)
(***************************************************************************)
SignupBegin(r, b) ==
    /\ req[r] = Idle
    /\ req' = [req EXCEPT ![r] =
         IF ~signupSchema(b)
         THEN UserReq("signup", "done", NoHeader, "-", "-", "-", "-", "-", 400, "invalid")
         ELSE IF userExists(b.email.addr)
         THEN UserReq("signup", "done", NoHeader, "-", b.email.addr, "-", "-", "-",
                      409, "email_exists")
         ELSE UserReq("signup", "create", NoHeader, b.name.text, b.email.addr,
                      b.address.text, b.password.text, "normal_user", 0, "")]
    /\ UNCHANGED <<users, stores, ratings, now, client>>

(***************************************************************************)
(* POST /admin/users                                                       *)
(***************************************************************************)
AdminUsersBegin(r, header, b) ==
    /\ req[r] = Idle
    /\ req' = [req EXCEPT ![r] =
         IF ~authMiddleware(header)
         THEN UserReq("adminUser", "done", header, "-", "-", "-", "-", "-",
                      401, "unauthorized")
         ELSE IF ~IsAdmin(header)
         THEN UserReq("adminUser", "done", header, "-", "-", "-", "-", "-",
                      403, "forbidden")
         ELSE IF ~addUserSchema(b)
         THEN UserReq("adminUser", "done", header, "-", "-", "-", "-", "-",
                      400, "invalid")
         ELSE IF userExists(b.email.addr)
         THEN UserReq("adminUser", "done", header, "-", b.email.addr, "-", "-", "-",
                      409, "email_exists")
         ELSE UserReq("adminUser", "create", header, b.name.text, b.email.addr,
                      b.address.text, b.password.text, b.role, 0, "")]
    /\ UNCHANGED <<users, stores, ratings, now, client>>

\* prisma.user.create of both handlers, after the awaited hashPassword
UserCreate(r) ==
    /\ req[r].op \in {"signup", "adminUser"} /\ req[r].pc = "create"
    /\ LET q == req[r]
       IN  IF UserEmailUniqueOk(q.email)
           THEN /\ users' = users \cup
                      {User(NewUserId, q.name, q.email, q.address, q.role,
                            hashPassword(q.password))}
                /\ now' = now + 1
                /\ req' = [req EXCEPT ![r] =
                      [q EXCEPT !.pc = "done", !.status = 200, !.password = "-"]]
           ELSE /\ req' = [req EXCEPT ![r] =
                      [q EXCEPT !.pc = "done", !.err = "P2002", !.password = "-"]]
                /\ UNCHANGED <<users, now>>
    /\ UNCHANGED <<stores, ratings, client>>

(***************************************************************************)
(* POST /admin/stores                                                      *)
(***************************************************************************)
StoreReq(header, ownerId, status, err) ==
    [op |-> "adminStore", pc |-> "done", auth |-> header, ownerId |-> ownerId,
     status |-> status, err |-> err]

AdminStores(r, header, b) ==
    /\ req[r] = Idle
    /\ IF ~authMiddleware(header)
       THEN /\ req' = [req EXCEPT ![r] = StoreReq(header, "-", 401, "unauthorized")]
            /\ UNCHANGED <<stores, now>>
       ELSE IF ~IsAdmin(header)
       THEN /\ req' = [req EXCEPT ![r] = StoreReq(header, "-", 403, "forbidden")]
            /\ UNCHANGED <<stores, now>>
       ELSE IF ~addStoreSchema(b)
       THEN /\ req' = [req EXCEPT ![r] = StoreReq(header, "-", 400, "invalid")]
            /\ UNCHANGED <<stores, now>>
       ELSE IF ~StoreFkOk(b.ownerId)
       THEN /\ req' = [req EXCEPT ![r] = StoreReq(header, b.ownerId, 0, "P2003")]
            /\ UNCHANGED <<stores, now>>
       ELSE /\ stores' = stores \cup
                  {Store(NewStoreId, b.name.text, b.address.text, b.ownerId)}
            /\ now' = now + 1
            /\ req' = [req EXCEPT ![r] = StoreReq(header, b.ownerId, 200, "")]
    /\ UNCHANGED <<users, ratings, client>>

(***************************************************************************)
(* The listings: GET /stores, GET /admin/stores, GET /owner/stores.  Each  *)
(* awaits store.findMany and then, per store and in any order (Promise.all *)
(* over async callbacks), the aggregate over the store's ratings.  The     *)
(* search text q is a parameter of the listings that take one; the sort    *)
(* field and order of the admin store list go into findMany's orderBy.     *)
(***************************************************************************)
\* The strings of the model and their characters.
Chars(str) ==
    CASE str = "" -> <<>>
      [] str = "Ada" -> <<"A", "d", "a">>
      [] str = "Otto" -> <<"O", "t", "t", "o">>
      [] str = "Town" -> <<"T", "o", "w", "n">>
      [] str = "Ugo" -> <<"U", "g", "o">>
      [] str = "New Name" -> <<"N", "e", "w", " ", "N", "a", "m", "e">>
      [] str = "Otto Shop" -> <<"O", "t", "t", "o", " ", "S", "h", "o", "p">>
      [] str = "Elm St" -> <<"E", "l", "m", " ", "S", "t">>
      [] str = "Oak St" -> <<"O", "a", "k", " ", "S", "t">>
      [] str = "New St" -> <<"N", "e", "w", " ", "S", "t">>
      [] str = "admin@x" -> <<"a", "d", "m", "i", "n", "@", "x">>
      [] str = "owner@x" -> <<"o", "w", "n", "e", "r", "@", "x">>
      [] str = "user1@x" -> <<"u", "s", "e", "r", "1", "@", "x">>
      [] str = "user2@x" -> <<"u", "s", "e", "r", "2", "@", "x">>
      [] str = "new@x" -> <<"n", "e", "w", "@", "x">>
      [] str = "own" -> <<"o", "w", "n">>
      [] str = "OWN" -> <<"O", "W", "N">>
      [] str = "oak" -> <<"o", "a", "k">>
      [] str = "OAK" -> <<"O", "A", "K">>
      [] str = "new" -> <<"n", "e", "w">>
      [] str = "Eco Food" -> <<"E", "c", "o", " ", "F", "o", "o", "d">>
      [] str = "admin" -> <<"a", "d", "m", "i", "n">>
      [] str = "normal_user" ->
            <<"n", "o", "r", "m", "a", "l", "_", "u", "s", "e", "r">>
      [] str = "store_owner" ->
            <<"s", "t", "o", "r", "e", "_", "o", "w", "n", "e", "r">>

UpperCase ==
    <<"A", "B", "C", "D", "E", "F", "G", "H", "I", "J", "K", "L", "M",
      "N", "O", "P", "Q", "R", "S", "T", "U", "V", "W", "X", "Y", "Z">>
LowerCase ==
    <<"a", "b", "c", "d", "e", "f", "g", "h", "i", "j", "k", "l", "m",
      "n", "o", "p", "q", "r", "s", "t", "u", "v", "w", "x", "y", "z">>

\* String.prototype.toLowerCase, on the characters of a string
toLowerCase(cs) ==
    [i \in 1..Len(cs) |->
        IF \E k \in 1..Len(UpperCase) : UpperCase[k] = cs[i]
        THEN LowerCase[CHOOSE k \in 1..Len(UpperCase) : UpperCase[k] = cs[i]]
        ELSE cs[i]]

\* String.prototype.includes, on the characters of two strings
includes(cs, term) ==
    \E i \in 0..(Len(cs) - Len(term)) : SubSeq(cs, i + 1, i + Len(term)) = term

\* no search text: req.query.q absent or empty, which `if (q)` skips alike
NoQuery == ""

\* The filter { contains: q, mode: "insensitive" } of the listings.  The
\* database is SQLite (file:./dev.db), whose Prisma connector has no `mode`
\* in its string filters: the client rejects the query before running it.
\* The rejection of a findMany with search text q, "" when it is accepted.
findManyError(q) ==
    IF q # NoQuery THEN "PrismaClientValidationError" ELSE ""

\* the sort parameters explored: the four fields of the tables' headers
SortFields == {"name", "address", "rating", "createdAt"}
SortOrders == {"asc", "desc"}

\* the columns of the Store table
StoreColumns == {"id", "name", "address", "ownerId", "createdAt"}

\* orderBy: { [sortField]: sortOrder }: Prisma rejects a field that is not
\* a column of the model; "" when the orderBy is accepted
orderByError(sortField) ==
    IF sortField \notin StoreColumns THEN "PrismaClientValidationError" ELSE ""

\* the characters of the model's strings in code-unit order
CodeOrder == <<" ", "1", "2", "@">> \o UpperCase \o <<"_">> \o LowerCase
CharCode(c) == CHOOSE k \in 1..Len(CodeOrder) : CodeOrder[k] = c

\* a < b for two strings, unit by unit (SQLite's BINARY collation)
RECURSIVE StrLess(_, _)
StrLess(a, b) ==
    IF b = <<>> THEN FALSE
    ELSE IF a = <<>> THEN TRUE
    ELSE IF Head(a) # Head(b) THEN CharCode(Head(a)) < CharCode(Head(b))
    ELSE StrLess(Tail(a), Tail(b))

\* createdAt DEFAULT CURRENT_TIMESTAMP: the rows in the order of their
\* creation, which is the order their ids were handed out
CreationOrder == <<"s1">> \o StoreIdPool
CreatedRank(id) == CHOOSE k \in 1..Len(CreationOrder) : CreationOrder[k] = id

ColumnLess(sortField, a, b) ==
    CASE sortField = "name" -> StrLess(Chars(a.name), Chars(b.name))
      [] sortField = "address" -> StrLess(Chars(a.address), Chars(b.address))
      [] sortField = "ownerId" -> StrLess(Chars(a.ownerId), Chars(b.ownerId))
      [] OTHER -> CreatedRank(a.id) < CreatedRank(b.id)

\* a comes before b under ORDER BY sortField sortOrder; rows of equal
\* keys stay in creation order
ComesBefore(sortField, sortOrder, a, b) ==
    LET lt == ColumnLess(sortField, a, b)
        gt == ColumnLess(sortField, b, a)
    IN  IF ~lt /\ ~gt THEN CreatedRank(a.id) < CreatedRank(b.id)
        ELSE IF sortOrder = "asc" THEN lt ELSE gt

\* the ids of the rows of findMany in the order of orderBy
storeOrderBy(rows, sortField, sortOrder) ==
    LET ids == {s.id : s \in rows}
        row(id) == CHOOSE s \in rows : s.id = id
    IN  CHOOSE seq \in [1..Cardinality(ids) -> ids] :
            /\ \A i \in DOMAIN seq : \A j \in DOMAIN seq : i # j => seq[i] # seq[j]
            /\ \A i \in DOMAIN seq : \A j \in DOMAIN seq :
                  i < j => ComesBefore(sortField, sortOrder, row(seq[i]), row(seq[j]))

RatingsOfStore(storeId) == {x \in ratings : x.storeId = storeId}

RECURSIVE SumOf(_)
SumOf(rows) ==
    IF rows = {} THEN 0
    ELSE LET x == CHOOSE y \in rows : TRUE
         IN  x.rating + SumOf(rows \ {x})

\* the null that _avg is over no rows
Null == [num |-> 0, den |-> 0]

\* (mutant) an aggregate over the whole table, whatever the store
ratingAggregate_all(storeId) ==
    [avg |-> IF ratings = {} THEN Null ELSE Num(SumOf(ratings), Cardinality(ratings)),
     count |-> Cardinality(ratings)]

\* prisma.rating.aggregate({ where: { storeId }, _avg: { rating: true },
\* _count: { rating: true } })
ratingAggregate(storeId) ==
    LET rows == RatingsOfStore(storeId)
    IN  [avg |-> IF rows = {} THEN Null ELSE Num(SumOf(rows), Cardinality(rows)),
         count |-> Cardinality(rows)]

\* avg._avg.rating || 0
OrZero(a) == IF a = Null \/ a.num = 0 THEN Num(0, 1) ELSE a

\* prisma.rating.findMany({ where: { storeId }, include: { user: true } })
ratingFindManyWithUser(storeId) ==
    { [id |-> x.id, userId |-> x.userId, storeId |-> x.storeId, rating |-> x.rating,
       createdAt |-> x.createdAt, user |-> CHOOSE u \in users : u.id = x.userId]
        : x \in RatingsOfStore(storeId) }

\* The handler's locals: me, the search text, the stores found and not yet
\* aggregated (todo), for the owner listing the stores whose ratings have
\* been read (found), the entries computed so far (data), and the response
\* once sent.
ListReq(op, pc, header, q, status, err, todo, found, data) ==
    [op |-> op, pc |-> pc, auth |-> header, q |-> q, status |-> status,
     err |-> err, todo |-> todo, found |-> found, data |-> data]

ListRefused(op, header, q, status, err) ==
    ListReq(op, "done", header, q, status, err, {}, {}, {})

\* after findMany: the callbacks are started, or res.json([]) at once
ListStarted(op, header, q, found) ==
    IF found = {}
    THEN ListReq(op, "done", header, q, 200, "", {}, {}, {})
    ELSE ListReq(op, "aggregate", header, q, 0, "", found, {}, {})

\* one callback has its figures; res.json(data) when it was the last one
ListStep(q, todo, found, data) ==
    IF todo = {} /\ found = {}
    THEN [q EXCEPT !.pc = "done", !.status = 200, !.todo = {}, !.found = {}, !.data = data]
    ELSE [q EXCEPT !.todo = todo, !.found = found, !.data = data]

\* GET /stores
GetStoresBegin(r, header, q) ==
    /\ req[r] = Idle
    /\ req' = [req EXCEPT ![r] =
         IF ~authMiddleware(header)
         THEN ListRefused("stores", header, NoQuery, 401, "unauthorized")
         ELSE IF findManyError(q) # ""
         THEN ListRefused("stores", header, q, 0, findManyError(q))
         ELSE ListStarted("stores", header, q, stores)]
    /\ UNCHANGED <<users, stores, ratings, now, client>>

GetStoresAggregate(r) ==
    /\ req[r].op = "stores" /\ req[r].pc = "aggregate"
    /\ \E s \in req[r].todo :
         LET avg == ratingAggregate(s.id)
             entry == [id |-> s.id, name |-> s.name, address |-> s.address,
                       ownerId |-> s.ownerId, averageRating |-> OrZero(avg.avg)]
         IN  req' = [req EXCEPT ![r] =
                 ListStep(req[r], req[r].todo \ {s}, {}, req[r].data \cup {entry})]
    /\ UNCHANGED <<users, stores, ratings, now, client>>

\* the locals of GET /admin/stores: those of a listing, the sort
\* parameters, and the ids of the stores in the order findMany gave them,
\* which Promise.all and res.json(data) keep
Sorted(q, sortField, sortOrder, order) ==
    [op |-> q.op, pc |-> q.pc, auth |-> q.auth, q |-> q.q, status |-> q.status,
     err |-> q.err, todo |-> q.todo, found |-> q.found, data |-> q.data,
     sortField |-> sortField, sortOrder |-> sortOrder, order |-> order]

\* GET /admin/stores
GetAdminStoresBegin(r, header, q, sortField, sortOrder) ==
    /\ req[r] = Idle
    /\ req' = [req EXCEPT ![r] =
         IF ~authMiddleware(header)
         THEN Sorted(ListRefused("adminStores", header, NoQuery, 401, "unauthorized"),
                     "-", "-", <<>>)
         ELSE IF ~IsAdmin(header)
         THEN Sorted(ListRefused("adminStores", header, NoQuery, 403, "forbidden"),
                     "-", "-", <<>>)
         ELSE IF findManyError(q) # ""
         THEN Sorted(ListRefused("adminStores", header, q, 0, findManyError(q)),
                     sortField, sortOrder, <<>>)
         ELSE IF orderByError(sortField) # ""
         THEN Sorted(ListRefused("adminStores", header, q, 0, orderByError(sortField)),
                     sortField, sortOrder, <<>>)
         ELSE Sorted(ListStarted("adminStores", header, q,
                        { [id |-> s.id, name |-> s.name, address |-> s.address,
                           ownerId |-> s.ownerId,
                           owner |-> CHOOSE u \in users : u.id = s.ownerId]
                            : s \in stores }),
                     sortField, sortOrder, storeOrderBy(stores, sortField, sortOrder))]
    /\ UNCHANGED <<users, stores, ratings, now, client>>

GetAdminStoresAggregate(r) ==
    /\ req[r].op = "adminStores" /\ req[r].pc = "aggregate"
    /\ \E s \in req[r].todo :
         LET avg == ratingAggregate(s.id)
             entry == [id |-> s.id, name |-> s.name, address |-> s.address,
                       ownerId |-> s.ownerId, owner |-> s.owner,
                       averageRating |-> OrZero(avg.avg), totalRatings |-> avg.count]
         IN  req' = [req EXCEPT ![r] =
                 ListStep(req[r], req[r].todo \ {s}, {}, req[r].data \cup {entry})]
    /\ UNCHANGED <<users, stores, ratings, now, client>>

\* (mutant) the stores of every owner
storeFindManyByOwner_all(ownerId) == stores

\* prisma.store.findMany({ where: { ownerId: me.id } })
storeFindManyByOwner(ownerId) == {s \in stores : s.ownerId = ownerId}

\* GET /owner/stores
GetOwnerStoresBegin(r, header) ==
    /\ req[r] = Idle
    /\ req' = [req EXCEPT ![r] =
         IF ~authMiddleware(header)
         THEN ListRefused("ownerStores", header, NoQuery, 401, "unauthorized")
         ELSE IF header.role # "store_owner"
         THEN ListRefused("ownerStores", header, NoQuery, 403, "forbidden")
         ELSE ListStarted("ownerStores", header, NoQuery, storeFindManyByOwner(header.id))]
    /\ UNCHANGED <<users, stores, ratings, now, client>>

\* the first await of a callback: the ratings of the store, with their users
GetOwnerStoresFindMany(r) ==
    /\ req[r].op = "ownerStores" /\ req[r].pc = "aggregate"
    /\ \E s \in req[r].todo :
         req' = [req EXCEPT ![r] =
             ListStep(req[r], req[r].todo \ {s},
                      req[r].found \cup {[store |-> s, ratings |-> ratingFindManyWithUser(s.id)]},
                      req[r].data)]
    /\ UNCHANGED <<users, stores, ratings, now, client>>

\* the second await of a callback: the average
GetOwnerStoresAggregate(r) ==
    /\ req[r].op = "ownerStores" /\ req[r].pc = "aggregate"
    /\ \E f \in req[r].found :
         LET avg == ratingAggregate(f.store.id)
             entry == [id |-> f.store.id, name |-> f.store.name,
                       address |-> f.store.address, ownerId |-> f.store.ownerId,
                       ratings |-> f.ratings, averageRating |-> OrZero(avg.avg),
                       totalRatings |-> Cardinality(f.ratings)]
         IN  req' = [req EXCEPT ![r] =
                 ListStep(req[r], req[r].todo, req[r].found \ {f},
                          req[r].data \cup {entry})]
    /\ UNCHANGED <<users, stores, ratings, now, client>>

(***************************************************************************)
(* POST /auth/login                                                        *)
(***************************************************************************)
\* the user fields the handlers copy into a response: all but the password
\* (createdAt is not kept in the model's User rows)
PublicUser(u) ==
    [id |-> u.id, name |-> u.name, email |-> u.email, address |-> u.address,
     role |-> u.role]

NoUser == [id |-> "-", name |-> "-", email |-> "-", address |-> "-", role |-> "-"]

\* loginSchema: email is emailSchema, password is z.string().min(1)
loginSchema(b) == emailSchema(b.email) /\ b.password # ""

\* the bodies explored: the demo user with the password of the seed, with
\* the password a password update sets, with a wrong and with an empty one;
\* an address nobody has; an ill-formed address
LoginBodies ==
    {[email |-> Email("user1@x", TRUE), password |-> pw]
        : pw \in {"User@1234", "Fresh@123", "wrong", ""}}
    \cup {[email |-> Email("new@x", TRUE), password |-> "User@1234"],
          [email |-> Email("new", FALSE), password |-> "User@1234"]}

LoginReq(status, err, token, user) ==
    [op |-> "login", pc |-> "done", auth |-> NoHeader, status |-> status,
     err |-> err, token |-> token, user |-> user]

Login(r, b) ==
    /\ req[r] = Idle
    /\ req' = [req EXCEPT ![r] =
         IF ~loginSchema(b)
         THEN LoginReq(400, "invalid", NoHeader, NoUser)
         ELSE IF ~userExists(b.email.addr)
         THEN LoginReq(401, "invalid_credentials", NoHeader, NoUser)
         ELSE LET user == CHOOSE u \in users : u.email = b.email.addr
              IN  IF ~comparePassword(b.password, user.password)
                  THEN LoginReq(401, "invalid_credentials", NoHeader, NoUser)
                  ELSE LoginReq(200, "", signToken(user), PublicUser(user))]
    /\ UNCHANGED <<users, stores, ratings, now, client>>

(***************************************************************************)
(* PATCH /users/:id/password                                               *)
(***************************************************************************)
\* the :id segments explored: the users there are, and an id of no user
UserIds == {u.id : u \in users} \cup {"uX"}

\* the newPassword fields explored: a password, and none
NewPasswords == {"Fresh@123", ""}

PasswordReq(header, id, status, err) ==
    [op |-> "password", pc |-> "done", auth |-> header, id |-> id,
     status |-> status, err |-> err]

\* (mutant) an update that also makes the user an administrator
userUpdatePassword_promote(id, pwd) ==
    { IF u.id = id THEN [u EXCEPT !.password = pwd, !.role = "admin"] ELSE u : u \in users }

\* prisma.user.update({ where: { id }, data: { password } })
userUpdatePassword(id, pwd) ==
    { IF u.id = id THEN [u EXCEPT !.password = pwd] ELSE u : u \in users }

PatchPassword(r, header, id, newPassword) ==
    /\ req[r] = Idle
    /\ IF ~authMiddleware(header)
       THEN /\ req' = [req EXCEPT ![r] = PasswordReq(header, "-", 401, "unauthorized")]
            /\ UNCHANGED <<users, now>>
       ELSE IF newPassword = ""
       THEN /\ req' = [req EXCEPT ![r] = PasswordReq(header, "-", 400, "invalid")]
            /\ UNCHANGED <<users, now>>
       ELSE IF ~ \E u \in users : u.id = id
       THEN /\ req' = [req EXCEPT ![r] = PasswordReq(header, id, 0, "P2025")]
            /\ UNCHANGED <<users, now>>
       ELSE /\ users' = userUpdatePassword(id, hashPassword(newPassword))
            /\ now' = now + 1
            /\ req' = [req EXCEPT ![r] = PasswordReq(header, id, 200, "")]
    /\ UNCHANGED <<stores, ratings, client>>

(***************************************************************************)
(* GET /admin/stats (the three counts are read in one step)                *)
(***************************************************************************)
StatsReq(header, status, err, body) ==
    [op |-> "stats", pc |-> "done", auth |-> header, status |-> status,
     err |-> err, body |-> body]

NoStats == [totalUsers |-> 0, totalStores |-> 0, totalRatings |-> 0]

GetAdminStats(r, header) ==
    /\ req[r] = Idle
    /\ req' = [req EXCEPT ![r] =
         IF ~authMiddleware(header)
         THEN StatsReq(header, 401, "unauthorized", NoStats)
         ELSE IF ~IsAdmin(header)
         THEN StatsReq(header, 403, "forbidden", NoStats)
         ELSE StatsReq(header, 200, "",
                  [totalUsers |-> Cardinality(users),
                   totalStores |-> Cardinality(stores),
                   totalRatings |-> Cardinality(ratings)])]
    /\ UNCHANGED <<users, stores, ratings, now, client>>

(***************************************************************************)
(* GET /admin/users (the order of the answer is left out)                  *)
(***************************************************************************)
\* the role parameters explored: none, "all", and two roles
RoleFilters == {"", "all", "store_owner", "normal_user"}

\* the search texts explored: none, and two in either casing
Queries == {NoQuery, "own", "OWN", "oak", "OAK"}

UsersReq(header, q, role, status, err, data) ==
    [op |-> "users", pc |-> "done", auth |-> header, q |-> q, role |-> role,
     status |-> status, err |-> err, data |-> data]

\* prisma.user.findMany({ where }) for a where without search text:
\* if (role && role !== "all") where["role"] = role
userFindMany(role) ==
    {u \in users : role \in {"", "all"} \/ u.role = role}

GetAdminUsers(r, header, q, role) ==
    /\ req[r] = Idle
    /\ req' = [req EXCEPT ![r] =
         IF ~authMiddleware(header)
         THEN UsersReq(header, NoQuery, "", 401, "unauthorized", {})
         ELSE IF ~IsAdmin(header)
         THEN UsersReq(header, NoQuery, "", 403, "forbidden", {})
         ELSE IF findManyError(q) # ""
         THEN UsersReq(header, q, role, 0, findManyError(q), {})
         ELSE UsersReq(header, q, role, 200, "",
                       {PublicUser(u) : u \in userFindMany(role)})]
    /\ UNCHANGED <<users, stores, ratings, now, client>>

(***************************************************************************)
(* The client ledger: DataContext.tsx and the rating dialog of the user    *)
(* store list.                                                             *)
(***************************************************************************)
\* the accounts that reach the /user page: the demo normal user "3" and the
\* first account signed up in the browser, which gets the id "4"
ClientRaters == {"3", "4"}

\* the stars the dialog can hold when Submit is pressed: none, or 1..5
PendingRatings == {0, 2}

ClientStoreIds == {initialStores[i].id : i \in 1..Len(initialStores)}

\* ratings.find((r) => r.userId === userId && r.storeId === storeId):
\* the index of the first match, 0 for undefined
getUserRating(userId, storeId) ==
    LET hits == {i \in 1..Len(cRatings) :
                    cRatings[i].userId = userId /\ cRatings[i].storeId = storeId}
    IN  IF hits = {} THEN 0 ELSE CHOOSE i \in hits : \A j \in hits : i <= j

\* updateRating: prev.map((r) => (r.id === ratingId ? { ...r, rating } : r))
updateRating(ratingId, newRating) ==
    [i \in 1..Len(cRatings) |->
        IF cRatings[i].id = ratingId
        THEN [cRatings[i] EXCEPT !.rating = newRating]
        ELSE cRatings[i]]

\* addRating: [...prev, { ...rating, id: String(Date.now()), createdAt }]
addRating(userId, storeId, rating, t) ==
    Append(cRatings, ClientRating(t, userId, storeId, rating, t))

\* ratings.filter((r) => r.storeId === storeId), as indexes
StoreRatingIndexes(storeId) == {i \in 1..Len(cRatings) : cRatings[i].storeId = storeId}

RECURSIVE SumAt(_)
SumAt(I) ==
    IF I = {} THEN 0
    ELSE LET i == CHOOSE j \in I : TRUE
         IN  cRatings[i].rating + SumAt(I \ {i})

\* getStoreAverageRating: 0 when the store has no ratings, else sum / length
getStoreAverageRating(storeId) ==
    LET storeRatings == StoreRatingIndexes(storeId)
    IN  IF storeRatings = {} THEN Num(0, 1)
        ELSE Num(SumAt(storeRatings), Cardinality(storeRatings))

\* handleSubmitRating of the user store list, for the logged-in user, the
\* store the dialog was opened on and the stars picked.  Date.now() of this
\* click is later than every earlier one.
handleSubmitRating(user, selectedStoreId, pendingRating) ==
    /\ IF pendingRating = 0
       THEN UNCHANGED <<cRatings, cNow>>
       ELSE LET existingRating == getUserRating(user, selectedStoreId)
            IN  IF existingRating # 0
                THEN /\ cRatings' = updateRating(cRatings[existingRating].id, pendingRating)
                     /\ UNCHANGED cNow
                ELSE /\ cRatings' = addRating(user, selectedStoreId, pendingRating, cNow + 1)
                     /\ cNow' = cNow + 1
    /\ UNCHANGED <<users, stores, ratings, now, req, cUsers, cStores, view, call, auth>>

(***************************************************************************)
(* The admin tables: UserManagement (/admin/users) and StoreManagement     *)
(* (/admin/stores).  A component's state lives while it is on screen; its  *)
(* rows come from DataProvider.                                            *)
(***************************************************************************)
itemsPerPage == 10

\* the search texts typed and the roles picked in the filter
SearchTerms == {"", "own", "new"}
TableRoleFilters == {"all", "admin", "normal_user", "store_owner"}
UserSortFields == {"name", "email", "role", "createdAt"}
StoreSortFields == {"name", "address", "rating", "createdAt"}

\* useState(...) of UserManagement and of StoreManagement
UserManagement ==
    [route |-> "users", searchTerm |-> "", roleFilter |-> "all",
     sortField |-> "createdAt", sortOrder |-> "desc", currentPage |-> 1]
StoreManagement ==
    [route |-> "stores", searchTerm |-> "", sortField |-> "createdAt",
     sortOrder |-> "desc", currentPage |-> 1]

\* text.toLowerCase().includes(term), term being searchTerm.toLowerCase()
lowerIncludes(text, term) ==
    includes(toLowerCase(Chars(text)), toLowerCase(Chars(term)))

\* a < b for two fractions of positive denominators
FracLess(a, b) == a.num * b.den < b.num * a.den

\* aValue < bValue of the sort callbacks: strings by code units, createdAt
\* by time, the average rating as a number
ValueLess(sortField, a, b) ==
    CASE sortField = "createdAt" -> a.createdAt < b.createdAt
      [] sortField = "rating" -> FracLess(a.averageRating, b.averageRating)
      [] OTHER -> StrLess(Chars(a[sortField]), Chars(b[sortField]))

\* the callback of result.sort: -1, 1 or 0
compare(sortField, sortOrder, a, b) ==
    IF ValueLess(sortField, a, b) THEN (IF sortOrder = "asc" THEN -1 ELSE 1)
    ELSE IF ValueLess(sortField, b, a) THEN (IF sortOrder = "asc" THEN 1 ELSE -1)
    ELSE 0

\* Array.prototype.sort, which is stable: each element goes behind the
\* elements that do not come after it
RECURSIVE sort(_, _, _)
sort(seq, sortField, sortOrder) ==
    IF seq = <<>> THEN <<>>
    ELSE LET x == seq[Len(seq)]
             done == sort(SubSeq(seq, 1, Len(seq) - 1), sortField, sortOrder)
             k == Cardinality({i \in 1..Len(done) :
                                  compare(sortField, sortOrder, done[i], x) <= 0})
         IN  SubSeq(done, 1, k) \o <<x>> \o SubSeq(done, k + 1, Len(done))

\* Array.prototype.filter
RECURSIVE filter(_, _)
filter(seq, keep) ==
    IF seq = <<>> THEN <<>>
    ELSE IF Head(seq) \in keep THEN <<Head(seq)>> \o filter(Tail(seq), keep)
    ELSE filter(Tail(seq), keep)

Range(seq) == {seq[i] : i \in 1..Len(seq)}

\* filteredUsers of UserManagement
filteredUsers ==
    LET searched ==
            IF view.searchTerm # ""
            THEN filter(cUsers, {u \in Range(cUsers) :
                                   \/ lowerIncludes(u.name, view.searchTerm)
                                   \/ lowerIncludes(u.email, view.searchTerm)
                                   \/ lowerIncludes(u.address, view.searchTerm)})
            ELSE cUsers
        byRole ==
            IF view.roleFilter # "all"
            THEN filter(searched, {u \in Range(searched) : u.role = view.roleFilter})
            ELSE searched
    IN  sort(byRole, view.sortField, view.sortOrder)

\* users.find((u) => u.id === store.ownerId): the owner's email, "" when
\* there is no such user (store.owner?.email is then undefined)
ownerEmail(ownerId) ==
    LET hits == {i \in 1..Len(cUsers) : cUsers[i].id = ownerId}
    IN  IF hits = {} THEN "" ELSE cUsers[CHOOSE i \in hits : \A j \in hits : i <= j].email

\* storesWithRatings of StoreManagement
storesWithRatings ==
    [i \in 1..Len(cStores) |->
        [id |-> cStores[i].id, name |-> cStores[i].name,
         address |-> cStores[i].address, ownerId |-> cStores[i].ownerId,
         createdAt |-> cStores[i].createdAt,
         hasOwner |-> \E k \in 1..Len(cUsers) : cUsers[k].id = cStores[i].ownerId,
         ownerEmail |-> ownerEmail(cStores[i].ownerId),
         averageRating |-> getStoreAverageRating(cStores[i].id)]]

\* filteredStores of StoreManagement
filteredStores ==
    LET all == storesWithRatings
        searched ==
            IF view.searchTerm # ""
            THEN filter(all, {x \in Range(all) :
                                \/ lowerIncludes(x.name, view.searchTerm)
                                \/ lowerIncludes(x.address, view.searchTerm)
                                \/ x.hasOwner /\ lowerIncludes(x.ownerEmail, view.searchTerm)})
            ELSE all
    IN  sort(searched, view.sortField, view.sortOrder)

\* the rows of the table on screen, filtered and sorted
filtered ==
    IF view.route = "users" THEN filteredUsers
    ELSE IF view.route = "stores" THEN filteredStores
    ELSE <<>>

\* Array.prototype.slice(start, end) for 0 <= start <= end
slice(seq, start, end) ==
    SubSeq(seq, start + 1, IF end < Len(seq) THEN end ELSE Len(seq))

\* (mutant) pages that start one row late
paginated_shifted(rows, currentPage) ==
    slice(rows, (currentPage - 1) * itemsPerPage + 1,
          (currentPage - 1) * itemsPerPage + 1 + itemsPerPage)

\* paginatedUsers / paginatedStores
paginated(rows, currentPage) ==
    slice(rows, (currentPage - 1) * itemsPerPage,
          (currentPage - 1) * itemsPerPage + itemsPerPage)

\* Math.ceil(length / itemsPerPage)
totalPages(length) == (length + itemsPerPage - 1) \div itemsPerPage

\* the footer "Showing {from} to {to} of {of}" of the pagination block
showing(rows, currentPage) ==
    [from |-> (currentPage - 1) * itemsPerPage + 1,
     to |-> IF currentPage * itemsPerPage < Len(rows)
            THEN currentPage * itemsPerPage ELSE Len(rows),
     of |-> Len(rows)]

\* the route of an admin table is opened: its component mounts
Navigate(route) ==
    /\ view.route # route
    /\ view' = IF route = "users" THEN UserManagement ELSE StoreManagement
    /\ UNCHANGED <<users, stores, ratings, now, req, cRatings, cNow, cUsers, cStores,
                 call, auth>>

\* onChange of the search input
setSearchTerm(term) ==
    /\ view.route \in {"users", "stores"}
    /\ view' = [view EXCEPT !.searchTerm = term]
    /\ UNCHANGED <<users, stores, ratings, now, req, cRatings, cNow, cUsers, cStores,
                 call, auth>>

\* onValueChange of the role filter of UserManagement
setRoleFilter(role) ==
    /\ view.route = "users"
    /\ view' = [view EXCEPT !.roleFilter = role]
    /\ UNCHANGED <<users, stores, ratings, now, req, cRatings, cNow, cUsers, cStores,
                 call, auth>>

\* handleSort of either component
handleSort(field) ==
    /\ \/ view.route = "users" /\ field \in {"name", "email", "role"}
       \/ view.route = "stores" /\ field \in {"name", "address", "rating"}
    /\ view' = IF view.sortField = field
               THEN [view EXCEPT !.sortOrder = IF view.sortOrder = "asc" THEN "desc" ELSE "asc"]
               ELSE [view EXCEPT !.sortField = field, !.sortOrder = "asc"]
    /\ UNCHANGED <<users, stores, ratings, now, req, cRatings, cNow, cUsers, cStores,
                 call, auth>>

\* the previous-page button: rendered when totalPages > 1, disabled on page 1
PreviousPage ==
    /\ view.route \in {"users", "stores"}
    /\ totalPages(Len(filtered)) > 1
    /\ view.currentPage # 1
    /\ view' = [view EXCEPT !.currentPage = view.currentPage - 1]
    /\ UNCHANGED <<users, stores, ratings, now, req, cRatings, cNow, cUsers, cStores,
                 call, auth>>

\* the next-page button: rendered when totalPages > 1, disabled on the
\* page whose number is totalPages
NextPage ==
    /\ view.route \in {"users", "stores"}
    /\ totalPages(Len(filtered)) > 1
    /\ view.currentPage # totalPages(Len(filtered))
    /\ view' = [view EXCEPT !.currentPage = view.currentPage + 1]
    /\ UNCHANGED <<users, stores, ratings, now, req, cRatings, cNow, cUsers, cStores,
                 call, auth>>

\* addUser of DataProvider, from onSubmit of the Add User dialog
addUser(name, email, address, role) ==
    /\ view.route = "users"
    /\ cUsers' = Append(cUsers, ClientUser(ToString(cNow + 1), name, email, address,
                                           role, cNow + 1))
    /\ cNow' = cNow + 1
    /\ UNCHANGED <<users, stores, ratings, now, req, cRatings, cStores, view, call, auth>>

\* addStore of DataProvider, from onSubmit of the Add Store dialog
addStore(name, address, ownerId) ==
    /\ view.route = "stores"
    /\ cStores' = Append(cStores, ClientStore(ToString(cNow + 1), name, address,
                                              ownerId, cNow + 1))
    /\ cNow' = cNow + 1
    /\ UNCHANGED <<users, stores, ratings, now, req, cRatings, cUsers, view, call, auth>>

(***************************************************************************)
(* The server: every handler step, for the request contexts R, ratings    *)
(* sent by callers of the roles `raters` with the values Vals, while the   *)
(* clock is below Limit.                                                   *)
(***************************************************************************)
ServerNext(R, raters, Vals, Limit) ==
    \/ \E r \in R, h \in Headers(raters), s \in StoreIds, v \in Vals :
          now < Limit /\ PostRatingBegin(r, h, s, v)
    \/ \E r \in R : now < Limit /\ PostRatingWrite(r)
    \/ \E r \in R, b \in SignupBodies : now < Limit /\ SignupBegin(r, b)
    \/ \E r \in R, h \in Headers(Roles), b \in AddUserBodies :
          now < Limit /\ AdminUsersBegin(r, h, b)
    \/ \E r \in R : now < Limit /\ UserCreate(r)
    \/ \E r \in R, h \in Headers(Roles), b \in AddStoreBodies :
          now < Limit /\ AdminStores(r, h, b)
    \/ \E r \in R : now < Limit /\ RequestEnd(r)

\* requests handled concurrently; the ratings are those of normal users
Next == ServerNext(Reqs, {"normal_user"}, RatingInputs, MaxTime)
Spec == Init /\ [][Next]_vars

\* requests handled one at a time; ratings come from callers of every role
NextSeq == ServerNext({"r1"}, Roles, SeqRatingInputs, MaxSeqTime)
SpecSeq == Init /\ [][NextSeq]_vars

\* The listings are explored from the state the administrator's first
\* POST /admin/stores leaves: a second store of the same owner, one tick on.
\* Requests are handled one at a time: ratings (whole numbers of stars) and
\* the three listings, whose awaits are still separate steps.  The browser
\* ledger runs beside the server.
InitList ==
    /\ users = InitUsers
    /\ stores = InitStores \cup {Store(StoreIdPool[1], "New Name", "New St", "own")}
    /\ ratings = {}
    /\ now = 2
    /\ req = [r \in Reqs |-> Idle]
    /\ cRatings = initialRatings
    /\ cNow = DateNowAtLoad
    /\ cUsers = initialUsers
    /\ cStores = initialStores
    /\ view = NoView
    /\ call = NoCall
    /\ auth = NoAuth

ListRatingInputs == {Num(n, 1) : n \in {4, 5}}

ListNext ==
    \/ \E h \in Headers({"normal_user"}), s \in StoreIds, v \in ListRatingInputs :
          now < MaxListTime /\ PostRatingBegin("r1", h, s, v)
    \/ PostRatingWrite("r1")
    \/ \E h \in Headers({"normal_user"}) : GetStoresBegin("r1", h, NoQuery)
    \/ GetStoresAggregate("r1")
    \/ \E h \in Headers({"admin", "store_owner"}) : GetAdminStoresBegin("r1", h, NoQuery, "createdAt", "desc")
    \/ GetAdminStoresAggregate("r1")
    \/ \E h \in Headers({"admin", "store_owner"}) : GetOwnerStoresBegin("r1", h)
    \/ GetOwnerStoresFindMany("r1")
    \/ GetOwnerStoresAggregate("r1")
    \/ RequestEnd("r1")
    \/ \E u \in ClientRaters, s \in ClientStoreIds, p \in PendingRatings :
          handleSubmitRating(u, s, p)

SpecList == InitList /\ [][ListNext]_vars

\* Every handler of the server, one request at a time, for callers of
\* every role and without a token.
AccessRatingInputs == {Num(3, 1)}
AccessStoreBodies ==
    {[name |-> GoodName, address |-> GoodAddress, ownerId |-> o] : o \in {"u1", "uX"}}
    \cup {[name |-> Name(61), address |-> GoodAddress, ownerId |-> "u1"]}
AccessUserBodies ==
    {AddUserBody(SignupBody(GoodName, e, GoodAddress, GoodPassword), "store_owner")
        : e \in GoodEmails}

AccessNext ==
    \/ \E h \in Headers(Roles), s \in StoreIds, v \in AccessRatingInputs :
          now < MaxAccessTime /\ PostRatingBegin("r1", h, s, v)
    \/ PostRatingWrite("r1")
    \/ \E b \in SignupBodies : now < MaxAccessTime /\ SignupBegin("r1", b)
    \/ \E h \in Headers(Roles), b \in AccessUserBodies :
          now < MaxAccessTime /\ AdminUsersBegin("r1", h, b)
    \/ UserCreate("r1")
    \/ \E h \in Headers(Roles), b \in AccessStoreBodies :
          now < MaxAccessTime /\ AdminStores("r1", h, b)
    \/ \E b \in LoginBodies : Login("r1", b)
    \/ \E h \in Headers(Roles), id \in UserIds, pw \in NewPasswords :
          now < MaxAccessTime /\ PatchPassword("r1", h, id, pw)
    \/ \E h \in Headers(Roles) : GetAdminStats("r1", h)
    \/ \E h \in Headers(Roles), q \in Queries, role \in RoleFilters :
          GetAdminUsers("r1", h, q, role)
    \/ \E h \in Headers(Roles), q \in Queries : GetStoresBegin("r1", h, q)
    \/ GetStoresAggregate("r1")
    \/ \E h \in Headers(Roles), q \in Queries : GetAdminStoresBegin("r1", h, q, "createdAt", "desc")
    \/ GetAdminStoresAggregate("r1")
    \/ \E h \in Headers(Roles) : GetOwnerStoresBegin("r1", h)
    \/ GetOwnerStoresFindMany("r1")
    \/ GetOwnerStoresAggregate("r1")
    \/ RequestEnd("r1")

SpecAccess == Init /\ [][AccessNext]_vars

\* the sort parameters of the admin store list, over two stores that the
\* normal users rate, one request at a time
MaxSortTime == 4

SortRatingInputs == {Num(n, 1) : n \in {2, 5}}

SortNext ==
    \/ \E h \in Headers({"normal_user"}), s \in StoreIds, v \in SortRatingInputs :
          now < MaxSortTime /\ PostRatingBegin("r1", h, s, v)
    \/ PostRatingWrite("r1")
    \/ \E h \in Headers({"admin"}), f \in SortFields, o \in SortOrders :
          GetAdminStoresBegin("r1", h, NoQuery, f, o)
    \/ GetAdminStoresAggregate("r1")
    \/ RequestEnd("r1")

SpecSort == InitList /\ [][SortNext]_vars

\* the admin tables of the browser: rows are added, the table is searched,
\* filtered, sorted and paged
MaxRows == 21
MaxPage == 4

TablesNext ==
    \/ \E route \in {"users", "stores"} : Navigate(route)
    \/ \E term \in SearchTerms : setSearchTerm(term)
    \/ \E role \in TableRoleFilters : setRoleFilter(role)
    \/ \E field \in UserSortFields \cup StoreSortFields : handleSort(field)
    \/ PreviousPage
    \/ view.route # "-" /\ view.currentPage < MaxPage /\ NextPage
    \/ Len(cUsers) < MaxRows /\ Len(cStores) = Len(initialStores)
          /\ addUser("New Name", "new@x", "New St", "normal_user")
    \/ Len(cStores) < MaxRows /\ Len(cUsers) = Len(initialUsers)
          /\ addStore("New Name", "New St", "2")

SpecTables == Init /\ [][TablesNext]_vars

\* the owner dashboard read in one request context while the normal users
\* rate the owner's store in the other
MaxDashTime == 3

DashRatingInputs == {Num(n, 1) : n \in {2, 5}}

DashNext ==
    \/ \E h \in Headers({"normal_user"}), v \in DashRatingInputs :
          now < MaxDashTime /\ PostRatingBegin("r2", h, "s1", v)
    \/ PostRatingWrite("r2")
    \/ \E h \in Headers({"store_owner"}) : GetOwnerStoresBegin("r1", h)
    \/ GetOwnerStoresFindMany("r1")
    \/ GetOwnerStoresAggregate("r1")
    \/ \E r \in Reqs : RequestEnd(r)

SpecDash == Init /\ [][DashNext]_vars

(***************************************************************************)
(* The server-backed DataProvider: the side of DataContext that calls the  *)
(* API while localStorage holds a token.  addStore, addUser and addRating  *)
(* await one fetch and go on when its response is there; updateRating      *)
(* awaits addRating and then maps the array.  `call` is the call that      *)
(* awaits, one at a time; a request the server never answers leaves it     *)
(* waiting.  The id of a server row is a cuid, which equals no seed id and *)
(* no String(Date.now()): in the client's arrays it is a number above      *)
(* CuidBase.                                                               *)
(***************************************************************************)
CuidBase == 1000

\* the arrays after the load effect when the provider mounted with an
\* admin's token: the rows of the server as the two listings return them
loadedUsers ==
    << ClientUser("adm", "Ada", "admin@x", "Elm St", "admin", 0),
       ClientUser("own", "Otto", "owner@x", "Oak St", "store_owner", 0),
       ClientUser("u1", "Town", "user1@x", "Elm St", "normal_user", 0),
       ClientUser("u2", "Ugo", "user2@x", "Oak St", "normal_user", 0) >>
loadedStores == << ClientStore("s1", "Otto Shop", "Oak St", "own", 0) >>

\* the provider has mounted: with no token or with one that is no admin's
\* the load effect leaves the seed rows, with an admin's it replaces the
\* users and the stores (never the ratings)
InitHead ==
    /\ users = InitUsers
    /\ stores = InitStores
    /\ ratings = {}
    /\ now = 1
    /\ req = [r \in Reqs |-> Idle]
    /\ cRatings = initialRatings
    /\ cNow = DateNowAtLoad
    /\ \/ cUsers = initialUsers /\ cStores = initialStores
       \/ cUsers = loadedUsers /\ cStores = loadedStores
    /\ view = NoView
    /\ call = NoCall
    /\ auth = NoAuth

\* the token of localStorage: one the server does not verify (expired, say),
\* the admin's, or a normal user's
HeadTokens == {BadToken} \cup {signToken(u) : u \in {x \in users : x.id \in {"adm", "u1"}}}

\* the rows the three arrays have gained since the provider mounted
HeadAdded ==
    (Len(cRatings) - Len(initialRatings)) + (Len(cUsers) - Len(initialUsers))
        + (Len(cStores) - IF cStores[1].id = "s1" THEN Len(loadedStores)
                          ELSE Len(initialStores))

\* the stores the user page lists, and the owners the Add Store dialog offers
ListedStoreIds == {cStores[i].id : i \in 1..Len(cStores)}
storeOwners == {cUsers[i].id : i \in {k \in 1..Len(cUsers) : cUsers[k].role = "store_owner"}}

\* what the dialogs hand to addStore and addUser: the form fields, which
\* passed the form's own schema; the Add User form hands over no password
NoPassword == Password("", 0, FALSE, FALSE)
HeadStoreBodies ==
    {[name |-> GoodName, address |-> GoodAddress, ownerId |-> o] : o \in storeOwners}
HeadUserBodies ==
    {AddUserBody(SignupBody(GoodName, e, GoodAddress, NoPassword), "normal_user")
        : e \in GoodEmails}

\* res.json() of a Rating row and of a Store row
ratingJson(row) ==
    ClientRating(CuidBase + row.id, row.userId, row.storeId, row.rating, row.createdAt)
storeJson(row) == ClientStore(row.id, row.name, row.address, row.ownerId, now)
userJson(u) == ClientUser(u.id, u.name, u.email, u.address, u.role, now)

\* res.ok: a status of 200..299
ok(status) == status >= 200 /\ status <= 299

\* handleSubmitRating with the server-backed provider: updateRating finds
\* `existing` in the array it was rendered with and calls addRating, or
\* addRating is called at once; either way the POST is on its way
handleSubmitRatingHead(user, selectedStoreId, pendingRating, token) ==
    /\ call = NoCall
    /\ req["r1"] = Idle
    /\ IF pendingRating = 0
       THEN UNCHANGED call
       ELSE LET existingRating == getUserRating(user, selectedStoreId)
            IN  call' =
                  IF existingRating # 0
                  THEN [fn |-> "updateRating", ratingId |-> cRatings[existingRating].id,
                        userId |-> cRatings[existingRating].userId,
                        storeId |-> cRatings[existingRating].storeId,
                        rating |-> pendingRating, token |-> token]
                  ELSE [fn |-> "addRating", ratingId |-> 0, userId |-> user,
                        storeId |-> selectedStoreId, rating |-> pendingRating,
                        token |-> token]
    /\ UNCHANGED <<users, stores, ratings, now, req, cRatings, cNow, cUsers, cStores,
                 view, auth>>

\* addRating after its await: the created row is appended when res.ok, and
\* otherwise the function goes on to the local row; updateRating, which
\* awaited it, then maps the array
addRatingResume ==
    /\ call.fn \in {"addRating", "updateRating"}
    /\ req["r1"].op = "rating" /\ req["r1"].pc = "done" /\ req["r1"].status # 0
    /\ LET res == req["r1"]
           newRating == ClientRating(cNow + 1, call.userId, call.storeId, call.rating,
                                     cNow + 1)
           appended == Append(cRatings,
                              IF ok(res.status) THEN ratingJson(res.body) ELSE newRating)
       IN  /\ cRatings' =
                 IF call.fn = "updateRating"
                 THEN [i \in 1..Len(appended) |->
                         IF appended[i].id = call.ratingId
                         THEN [appended[i] EXCEPT !.rating = call.rating]
                         ELSE appended[i]]
                 ELSE appended
           /\ cNow' = IF ok(res.status) THEN cNow ELSE cNow + 1
    /\ call' = NoCall
    /\ req' = [req EXCEPT !["r1"] = Idle]
    /\ UNCHANGED <<users, stores, ratings, now, cUsers, cStores, view, auth>>

\* addStore up to its await
addStoreHead(store, token) ==
    /\ call = NoCall
    /\ req["r1"] = Idle
    /\ call' = [fn |-> "addStore", body |-> store, token |-> token]
    /\ UNCHANGED <<users, stores, ratings, now, req, cRatings, cNow, cUsers, cStores,
                 view, auth>>

\* addStore after its await; the created row is the newest of the table
addStoreResume ==
    /\ call.fn = "addStore"
    /\ req["r1"].op = "adminStore" /\ req["r1"].pc = "done" /\ req["r1"].status # 0
    /\ LET res == req["r1"]
           created == CHOOSE s \in stores : s.id = StoreIdPool[Cardinality(stores) - 1]
           newStore == ClientStore(ToString(cNow + 1), call.body.name.text,
                                   call.body.address.text, call.body.ownerId, cNow + 1)
       IN  /\ cStores' = Append(cStores,
                                IF ok(res.status) THEN storeJson(created) ELSE newStore)
           /\ cNow' = IF ok(res.status) THEN cNow ELSE cNow + 1
    /\ call' = NoCall
    /\ req' = [req EXCEPT !["r1"] = Idle]
    /\ UNCHANGED <<users, stores, ratings, now, cRatings, cUsers, view, auth>>

\* addUser up to its await (user.role is always set by the form)
addUserHead(user, token) ==
    /\ call = NoCall
    /\ req["r1"] = Idle
    /\ call' = [fn |-> "addUser", body |-> user, token |-> token]
    /\ UNCHANGED <<users, stores, ratings, now, req, cRatings, cNow, cUsers, cStores,
                 view, auth>>

\* addUser after its await
addUserResume ==
    /\ call.fn = "addUser"
    /\ req["r1"].op = "adminUser" /\ req["r1"].pc = "done" /\ req["r1"].status # 0
    /\ LET res == req["r1"]
           newUser == ClientUser(ToString(cNow + 1), call.body.name.text,
                                 call.body.email.addr, call.body.address.text,
                                 call.body.role, cNow + 1)
           created == CHOOSE u \in users : u.email = res.email
       IN  /\ cUsers' = Append(cUsers, IF ok(res.status) THEN userJson(created) ELSE newUser)
           /\ cNow' = IF ok(res.status) THEN cNow ELSE cNow + 1
    /\ call' = NoCall
    /\ req' = [req EXCEPT !["r1"] = Idle]
    /\ UNCHANGED <<users, stores, ratings, now, cRatings, cStores, view, auth>>

\* the server-backed provider and the handlers its fetches reach, while
\* the arrays have gained fewer than MaxHeadAdded rows.  The body of addUser
\* has no password, so that the handler never comes to user.create.
MaxHeadAdded == 2

HeadNext ==
    \/ \E user \in ClientRaters, s \in ListedStoreIds, p \in PendingRatings,
          token \in HeadTokens :
          /\ HeadAdded < MaxHeadAdded
          /\ handleSubmitRatingHead(user, s, p, token)
    \/ /\ call.fn \in {"addRating", "updateRating"}
       /\ PostRatingBegin("r1", call.token, call.storeId, Num(call.rating, 1))
    \/ PostRatingWrite("r1")
    \/ addRatingResume
    \/ \E store \in HeadStoreBodies, token \in HeadTokens :
          /\ HeadAdded < MaxHeadAdded
          /\ addStoreHead(store, token)
    \/ call.fn = "addStore" /\ AdminStores("r1", call.token, call.body)
    \/ addStoreResume
    \/ \E user \in HeadUserBodies, token \in HeadTokens :
          /\ HeadAdded < MaxHeadAdded
          /\ addUserHead(user, token)
    \/ call.fn = "addUser" /\ AdminUsersBegin("r1", call.token, call.body)
    \/ addUserResume

SpecHead == InitHead /\ [][HeadNext]_vars

(***************************************************************************)
(* AuthProvider of AuthContext.tsx: login, signup and logout over the      *)
(* module's mockUsers, each after its awaited delay.  The /user page, open *)
(* to a normal user, submits ratings to the DataProvider under user.id.    *)
(***************************************************************************)
\* login: mockUsers.find((u) => u.email === email && u.password === password)
login(email, password) ==
    /\ LET found == {i \in 1..Len(auth.mockUsers) :
                        /\ auth.mockUsers[i].email = email
                        /\ auth.mockUsers[i].password = password}
           foundUser == auth.mockUsers[CHOOSE i \in found : \A j \in found : i <= j]
       IN  IF found # {}
           THEN auth' = [auth EXCEPT !.user = [id |-> foundUser.id,
                                                email |-> foundUser.email,
                                                role |-> foundUser.role]]
           ELSE UNCHANGED auth
    /\ UNCHANGED <<users, stores, ratings, now, req, cRatings, cNow, cUsers, cStores,
                 view, call>>

\* signup: refused when the email is in mockUsers, else the new account
\* gets the id String(mockUsers.length + 1), is pushed and logged in
signup(email, password) ==
    /\ IF \E i \in 1..Len(auth.mockUsers) : auth.mockUsers[i].email = email
       THEN UNCHANGED auth
       ELSE LET newUser == [id |-> ToString(Len(auth.mockUsers) + 1), email |-> email,
                            role |-> "normal_user"]
            IN  auth' = [mockUsers |-> Append(auth.mockUsers,
                                              MockUser(newUser.id, email, "normal_user",
                                                       password)),
                         user |-> newUser]
    /\ UNCHANGED <<users, stores, ratings, now, req, cRatings, cNow, cUsers, cStores,
                 view, call>>

logout ==
    /\ auth' = [auth EXCEPT !.user = null]
    /\ UNCHANGED <<users, stores, ratings, now, req, cRatings, cNow, cUsers, cStores,
                 view, call>>

\* the accounts of the browser and the ratings they submit, for at most
\* MaxSignups signups
MaxSignups == 2
SignupEmails == {"user1@x", "new@x", "new2@x", "new3@x"}
LoginPasswords == {"User@1234", "Secret@99"}

AuthNext ==
    \/ \E email \in SignupEmails :
          /\ Len(auth.mockUsers) < Len(mockUsers) + MaxSignups
          /\ signup(email, "Secret@99")
    \/ \E email \in SignupEmails, password \in LoginPasswords : login(email, password)
    \/ logout
    \/ \E s \in ClientStoreIds, p \in PendingRatings :
          /\ auth.user.role = "normal_user"
          /\ handleSubmitRating(auth.user.id, s, p)

SpecAuth == Init /\ [][AuthNext]_vars

\* the scenario of one store: the normal users rate the store s1 and read
\* the store list, one request at a time
ScenarioRatingInputs == {Num(n, 1) : n \in {2, 4, 5}}

ScenarioNext ==
    \/ \E h \in Headers({"normal_user"}), v \in ScenarioRatingInputs :
          now < MaxScenarioTime /\ PostRatingBegin("r1", h, "s1", v)
    \/ PostRatingWrite("r1")
    \/ \E h \in Headers({"normal_user"}) : GetStoresBegin("r1", h, NoQuery)
    \/ GetStoresAggregate("r1")
    \/ RequestEnd("r1")

SpecScenario == Init /\ [][ScenarioNext]_vars

\* the rating handler alone, two requests in flight; an awaited database
\* call settles (resolves or rejects), so a request at its write step takes it
MaxLiveTime == 2

LiveRatingInputs == {Num(3, 1), Num(5, 1)}

LiveNext ==
    \/ \E r \in Reqs, h \in Headers({"normal_user"}), s \in StoreIds,
          v \in LiveRatingInputs :
          now < MaxLiveTime /\ PostRatingBegin(r, h, s, v)
    \/ \E r \in Reqs : PostRatingWrite(r)
    \/ \E r \in Reqs : RequestEnd(r)

SpecLive ==
    Init /\ [][LiveNext]_vars /\ \A r \in Reqs : WF_vars(PostRatingWrite(r))

(***************************************************************************)
(* Helpers of the properties.                                              *)
(***************************************************************************)
RowsOf(userId, storeId) == {x \in ratings : x.userId = userId /\ x.storeId = storeId}
StoreExists(storeId) == \E s \in stores : s.id = storeId
ValidRating(v) == IsInt(v) /\ ToInt(v) >= 1 /\ ToInt(v) <= 5

\* r is a rating request whose awaited write has been decided
Wrote(r) ==
    /\ req[r].op = "rating" /\ req[r].pc = "done"
    /\ req[r].auth.kind = "valid" /\ req[r].store # "-"

\* r1 and r2 are two rating requests in flight for the same (user, store)
SamePair(r1, r2) ==
    /\ r1 # r2
    /\ req[r1].op = "rating" /\ req[r2].op = "rating"
    /\ req[r1].auth.kind = "valid" /\ req[r2].auth.kind = "valid"
    /\ req[r1].auth.id = req[r2].auth.id
    /\ req[r1].store # "-" /\ req[r1].store = req[r2].store

(***************************************************************************)
(* C1. In every reachable state there is at most one Rating row for each   *)
(* (userId, storeId) pair, whatever rating, signup, user-creation and      *)
(* store-creation requests have run and however they interleaved.          *)
(***************************************************************************)
C1_OneRatingPerPair ==
    \A x, y \in ratings : (x.userId = y.userId /\ x.storeId = y.storeId) => x = y

\* two requests of one pair both found no row, one insert won, the index
\* rejected the other
C1_Witness ==
    \E r1, r2 \in Reqs :
        /\ SamePair(r1, r2) /\ Wrote(r1) /\ Wrote(r2)
        /\ req[r1].existing = 0 /\ req[r2].existing = 0
        /\ req[r1].status = 200 /\ req[r2].err = "P2002"
        /\ Cardinality(RowsOf(req[r1].auth.id, req[r1].store)) = 1

(***************************************************************************)
(* C2. Two rating requests of one user for one store, with values v1 and   *)
(* v2 (3 and 5), started while the pair had no rating and interleaved in   *)
(* any order: once both have run, exactly one row exists for the pair and  *)
(* it holds v1 or v2.                                                      *)
(***************************************************************************)
C2_ConcurrentSubmitOneRow ==
    \A r1, r2 \in Reqs :
        ( /\ SamePair(r1, r2) /\ Wrote(r1) /\ Wrote(r2)
          /\ StoreExists(req[r1].store)
          /\ ValidRating(req[r1].val) /\ ValidRating(req[r2].val)
          /\ (req[r1].existing = 0 \/ req[r2].existing = 0) )
        => /\ Cardinality(RowsOf(req[r1].auth.id, req[r1].store)) = 1
           /\ \A x \in RowsOf(req[r1].auth.id, req[r1].store) :
                 x.rating \in {ToInt(req[r1].val), ToInt(req[r2].val)}

\* both looked up before either wrote; the values were 3 and 5
C2_Witness ==
    \E r1, r2 \in Reqs :
        /\ SamePair(r1, r2) /\ Wrote(r1) /\ Wrote(r2)
        /\ req[r1].existing = 0 /\ req[r2].existing = 0
        /\ req[r1].val = Num(3, 1) /\ req[r2].val = Num(5, 1)
        /\ \E x \in RowsOf(req[r1].auth.id, req[r1].store) : x.rating = 5

(***************************************************************************)
(* C3. When two rating requests of one pair both find no row before either *)
(* inserts, neither ends in a uniqueness failure: the one whose insert the *)
(* index rejects updates the existing row instead, and both callers        *)
(* receive a Rating.                                                       *)
(***************************************************************************)
C3_NoUniquenessFailure ==
    \A r1, r2 \in Reqs :
        ( /\ SamePair(r1, r2) /\ Wrote(r1) /\ Wrote(r2)
          /\ StoreExists(req[r1].store)
          /\ ValidRating(req[r1].val) /\ ValidRating(req[r2].val)
          /\ req[r1].existing = 0 /\ req[r2].existing = 0 )
        => /\ req[r1].err # "P2002" /\ req[r2].err # "P2002"
           /\ req[r1].status = 200 /\ req[r2].status = 200
           /\ req[r1].body # NoRating /\ req[r2].body # NoRating

(***************************************************************************)
(* C4. One request at a time: a rating request of an existing user for an  *)
(* existing store with an integer value v in 1..5 succeeds, and once it    *)
(* has completed exactly one row exists for the pair and holds v -- also   *)
(* when the pair already had a row with another value.                     *)
(***************************************************************************)
C4_SubmitSetsValue ==
    ( /\ Wrote("r1") /\ StoreExists(req["r1"].store) /\ ValidRating(req["r1"].val) )
    => /\ req["r1"].status = 200
       /\ RowsOf(req["r1"].auth.id, req["r1"].store) = {req["r1"].body}
       /\ req["r1"].body.rating = ToInt(req["r1"].val)

\* a resubmission: the pair had a row, created earlier with another value
\* than the 2 it holds now
C4_Witness ==
    /\ Wrote("r1") /\ req["r1"].status = 200 /\ req["r1"].existing # 0
    /\ req["r1"].val = Num(2, 1)
    /\ \E x \in RowsOf(req["r1"].auth.id, req["r1"].store) :
          x.rating = 2 /\ x.createdAt < now - 1

(***************************************************************************)
(* C5. A rating request for a pair that already has a row changes the      *)
(* rating field of that row and nothing else: id, userId, storeId and      *)
(* createdAt stay, no row is added, every other row is unchanged.          *)
(***************************************************************************)
C5_UpdateStep(r) ==
    ( /\ req[r].op = "rating" /\ req[r].pc = "write" /\ req[r].existing # 0
      /\ req'[r].pc = "done" /\ req'[r].status = 200 )
    => \E old \in ratings :
          /\ old.id = req[r].existing
          /\ old.userId = req[r].auth.id /\ old.storeId = req[r].store
          /\ ratings' = (ratings \ {old}) \cup {[old EXCEPT !.rating = ToInt(req[r].val)]}
          /\ Cardinality(ratings') = Cardinality(ratings)

C5_UpdateChangesOnlyRating == [][\A r \in Reqs : C5_UpdateStep(r)]_vars

\* an update has landed while the table held another row too
C5_Witness ==
    /\ Wrote("r1") /\ req["r1"].status = 200 /\ req["r1"].existing # 0
    /\ req["r1"].body.createdAt < now - 1
    /\ Cardinality(ratings) >= 2

(***************************************************************************)
(* C6. A rating request whose value is 0, 6 or not an integer is answered  *)
(* with the validation error (400 invalid) and leaves the Rating rows      *)
(* unchanged, so that every stored value is an integer in 1..5.            *)
(***************************************************************************)
C6_InvalidRatingRejected ==
    /\ \A r \in Reqs :
          ( /\ req[r].op = "rating" /\ req[r].pc = "done"
            /\ req[r].auth.kind = "valid" /\ ~ValidRating(req[r].val) )
          => req[r].status = 400 /\ req[r].err = "invalid"
    /\ \A x \in ratings : x.rating \in 1..5

(***************************************************************************)
(* C7. A rating request for a store id that references no Store is         *)
(* answered with a NotFound error and creates no Rating row.               *)
(***************************************************************************)
C7_UnknownStoreNotFound ==
    \A r \in Reqs :
        ( /\ Wrote(r) /\ ~StoreExists(req[r].store) /\ ValidRating(req[r].val) )
        => /\ req[r].status = 404
           /\ ~ \E x \in ratings : x.storeId = req[r].store

(***************************************************************************)
(* C8. Every listing reports, for every store, an averageRating that is 0  *)
(* when the store has no Rating rows and otherwise the sum of the values   *)
(* of the rows of that store divided by their number, exactly (average *   *)
(* count = sum): each entry the admin store list, the user store list and  *)
(* the owner dashboard compute, against the table as it is at that await,  *)
(* and getStoreAverageRating of the client against the client's ratings,   *)
(* for the stores of the client and for a store nobody has rated.          *)
(***************************************************************************)
ExactAverage(a, sum, count) ==
    /\ a.den # 0
    /\ count = 0 => a.num = 0
    /\ count # 0 => a.num * count = sum * a.den

C8_ListingStep(r) ==
    ( /\ req[r].pc = "aggregate" /\ req'[r].pc \in {"aggregate", "done"} )
    => \A e \in req'[r].data \ req[r].data :
          ExactAverage(e.averageRating, SumOf(RatingsOfStore(e.id)),
                       Cardinality(RatingsOfStore(e.id)))

C8_ClientAverages ==
    \A s \in ClientStoreIds \cup {"unrated"} :
        ExactAverage(getStoreAverageRating(s), SumAt(StoreRatingIndexes(s)),
                     Cardinality(StoreRatingIndexes(s)))

C8_AverageIsExact ==
    /\ [][\A r \in Reqs : C8_ListingStep(r)]_vars
    /\ [](C8_ClientAverages)

\* a listing has answered with 4.5 for a store rated 4 and 5 and with 0 for
\* a store without ratings, and the client shows an average of 3.5
C8_Witness ==
    /\ req["r1"].op \in {"stores", "adminStores", "ownerStores"}
    /\ req["r1"].pc = "done" /\ req["r1"].status = 200
    /\ \E e \in req["r1"].data :
          /\ e.averageRating = Num(9, 2)
          /\ Cardinality(RatingsOfStore(e.id)) = 2
    /\ \E e \in req["r1"].data :
          /\ e.averageRating = Num(0, 1)
          /\ RatingsOfStore(e.id) = {}
    /\ getStoreAverageRating("1") = Num(7, 2)

(***************************************************************************)
(* C9. The store s1 starts without ratings and is listed with average 0.   *)
(* When a user a rates it 4 the listed average is 4; when another user b   *)
(* then rates it 5 it is 4.5; when a then rates it 2 it is 3.5 and the     *)
(* store has exactly 2 Rating rows: the edit replaces a's earlier value    *)
(* in the average instead of adding a second one.                          *)
(***************************************************************************)
PairsOf(storeId) == {<<x.userId, x.rating>> : x \in RatingsOfStore(storeId)}

\* r has rated the store s1 with v as user a, and the write has succeeded
RatesS1(r, a, v) ==
    /\ req[r].op = "rating" /\ req[r].pc = "write"
    /\ req[r].auth.id = a /\ req[r].store = "s1" /\ req[r].val = Num(v, 1)
    /\ req'[r].pc = "done"

\* the average of s1 in the store list r has answered with, if r is one
ListedS1(r, n, d) ==
    ( /\ req[r].op = "stores" /\ req[r].pc = "done" /\ req[r].status = 200 )
    => \E e \in req[r].data :
          e.id = "s1" /\ e.averageRating.den # 0
              /\ e.averageRating.num * d = n * e.averageRating.den

C9_Listed ==
    \A a, b \in {u.id : u \in users} :
        a # b =>
            /\ PairsOf("s1") = {} => ListedS1("r1", 0, 1)
            /\ PairsOf("s1") = {<<a, 4>>} => ListedS1("r1", 4, 1)
            /\ PairsOf("s1") = {<<a, 4>>, <<b, 5>>} => ListedS1("r1", 9, 2)
            /\ PairsOf("s1") = {<<a, 2>>, <<b, 5>>} =>
                  ListedS1("r1", 7, 2) /\ Cardinality(RatingsOfStore("s1")) = 2

C9_Step ==
    \A a, b \in {u.id : u \in users} :
        a # b =>
            /\ (PairsOf("s1") = {} /\ RatesS1("r1", a, 4))
                  => req'["r1"].status = 200 /\ PairsOf("s1")' = {<<a, 4>>}
            /\ (PairsOf("s1") = {<<a, 4>>} /\ RatesS1("r1", b, 5))
                  => req'["r1"].status = 200 /\ PairsOf("s1")' = {<<a, 4>>, <<b, 5>>}
            /\ (PairsOf("s1") = {<<a, 4>>, <<b, 5>>} /\ RatesS1("r1", a, 2))
                  => /\ req'["r1"].status = 200
                     /\ PairsOf("s1")' = {<<a, 2>>, <<b, 5>>}
                     /\ Cardinality(RatingsOfStore("s1"))' = 2

C9_ScenarioAverages == [](C9_Listed) /\ [][C9_Step]_vars

\* the end of the scenario: a's row, the older one, holds 2 after an update,
\* b's holds 5, and the store list answers 3.5 for s1
C9_Witness ==
    /\ req["r1"].op = "stores" /\ req["r1"].pc = "done" /\ req["r1"].status = 200
    /\ \E e \in req["r1"].data : e.id = "s1" /\ e.averageRating = Num(7, 2)
    /\ now = 4
    /\ \E x, y \in RatingsOfStore("s1") :
          /\ x.userId # y.userId /\ x.createdAt < y.createdAt
          /\ x.rating = 2 /\ y.rating = 5
    /\ Cardinality(ratings) = 2

(***************************************************************************)
(* C10. A Rating row, once there, stays: every step keeps every row's id,  *)
(* userId and storeId, a pair goes from absent to present or from present  *)
(* to present only, and the number of rows never decreases.                *)
(***************************************************************************)
C10_RatingsNeverRemoved ==
    [][ /\ \A x \in ratings :
             \E y \in ratings' :
                 y.id = x.id /\ y.userId = x.userId /\ y.storeId = x.storeId
        /\ Cardinality(ratings') >= Cardinality(ratings) ]_vars

\* a pair went absent -> present -> present: its row was written again
C10_Witness ==
    \E r \in Reqs :
        /\ Wrote(r) /\ req[r].status = 200 /\ req[r].existing # 0
        /\ req[r].body \in ratings

(***************************************************************************)
(* C11. A rating request is accepted only from a caller whose token has    *)
(* the role normal_user: one carrying a valid token of an admin or of a    *)
(* store owner (with a value and a store that are otherwise acceptable) is *)
(* answered 403 forbidden, and no Rating row belongs to a user who is not  *)
(* a normal user.                                                          *)
(***************************************************************************)
C11_OnlyNormalUsersRate ==
    /\ \A r \in Reqs :
          ( /\ req[r].op = "rating" /\ req[r].pc = "done"
            /\ req[r].auth.kind = "valid" /\ req[r].auth.role # "normal_user"
            /\ ValidRating(req[r].val) /\ StoreExists(req[r].store) )
          => req[r].status = 403
    /\ \A x \in ratings :
          \A u \in users : u.id = x.userId => u.role = "normal_user"

(***************************************************************************)
(* C12. A rating request acts as its caller only: every row a step adds or *)
(* changes is the row answered to a request that has just written, and its *)
(* userId is the id in the token of that request; no step adds or changes  *)
(* a row of another user.                                                  *)
(***************************************************************************)
C12_ActsAsSelf ==
    [][ \A y \in ratings' \ ratings :
          \E r \in Reqs :
              /\ req[r].op = "rating" /\ req[r].pc = "write"
              /\ req'[r].pc = "done" /\ req'[r].status = 200
              /\ req'[r].body = y
              /\ y.userId = req[r].auth.id ]_vars

\* both users have rated the same store, the second after the first, and
\* each row is its caller's
C12_Witness ==
    \E r \in Reqs :
        /\ Wrote(r) /\ req[r].status = 200 /\ req[r].existing = 0
        /\ req[r].body \in ratings /\ req[r].body.userId = req[r].auth.id
        /\ \E x \in ratings :
              /\ x.storeId = req[r].store /\ x.userId # req[r].auth.id
              /\ x.createdAt < req[r].body.createdAt

(***************************************************************************)
(* C13. Every operation other than signup and login (password update,      *)
(* stats, user and store creation, user and store listings, rating, owner  *)
(* dashboard) answers 401 unauthorized when the request has no token or    *)
(* one that does not verify, and the step that answers so leaves the       *)
(* User, Store and Rating rows as they were.                               *)
(***************************************************************************)
NoIdentity(q) ==
    /\ q.op \notin {"idle", "signup", "login"}
    /\ q.auth.kind # "valid"

C13_Refused ==
    \A r \in Reqs :
        NoIdentity(req[r]) =>
            req[r].pc = "done" /\ req[r].status = 401 /\ req[r].err = "unauthorized"

C13_RefusedStep ==
    \A r \in Reqs :
        (req[r] = Idle /\ NoIdentity(req'[r]))
            => users' = users /\ stores' = stores /\ ratings' = ratings

C13_UnauthorizedWithoutToken == [](C13_Refused) /\ [][C13_RefusedStep]_vars

\* a password update without a token has been refused, after a token-bearing
\* one had changed a password
C13_Witness ==
    /\ req["r1"].op = "password" /\ req["r1"].auth.kind = "none"
    /\ req["r1"].status = 401
    /\ \E u \in users : u.password = hashPassword("Fresh@123")

(***************************************************************************)
(* C14. The admin operations (user creation, store creation, user list,    *)
(* admin store list, stats) answer 403 forbidden to every caller whose     *)
(* token has the role normal_user or store_owner, leaving Users and Stores *)
(* unchanged; a Store is created, and a User is created by the admin       *)
(* operation, only by a request whose token has the role admin.            *)
(***************************************************************************)
AdminOps == {"adminUser", "adminStore", "users", "adminStores", "stats"}

NotAdmin(q) ==
    /\ q.op \in AdminOps
    /\ q.auth.kind = "valid" /\ q.auth.role # "admin"

C14_Forbidden ==
    \A r \in Reqs :
        NotAdmin(req[r]) =>
            req[r].pc = "done" /\ req[r].status = 403 /\ req[r].err = "forbidden"

C14_Step ==
    /\ \A r \in Reqs :
          (req[r] = Idle /\ NotAdmin(req'[r])) => users' = users /\ stores' = stores
    /\ stores' # stores =>
          \E r \in Reqs : req'[r].op = "adminStore" /\ req'[r].auth.role = "admin"
    /\ Cardinality(users') > Cardinality(users) =>
          \E r \in Reqs :
              \/ req[r].op = "signup"
              \/ req[r].op = "adminUser" /\ req[r].auth.role = "admin"

C14_AdminOnly == [](C14_Forbidden) /\ [][C14_Step]_vars

\* a store owner's store creation has been refused, after the
\* administrator had created a store
C14_Witness ==
    /\ req["r1"].op = "adminStore" /\ req["r1"].auth.role = "store_owner"
    /\ req["r1"].status = 403
    /\ Cardinality(stores) > Cardinality(InitStores)

(***************************************************************************)
(* C15. The owner dashboard is answered only to callers whose token has    *)
(* the role store_owner (other roles get 403 forbidden), and every store   *)
(* of the answer, and of the stores being collected for it, has ownerId    *)
(* equal to the caller's id, each nested rating being one of that store.   *)
(***************************************************************************)
C15_OwnerSeesOwnStores ==
    \A r \in Reqs :
        req[r].op = "ownerStores" =>
            /\ (req[r].auth.kind = "valid" /\ req[r].auth.role # "store_owner")
                  => req[r].pc = "done" /\ req[r].status = 403
            /\ req[r].status = 200 => req[r].auth.role = "store_owner"
            /\ \A s \in req[r].todo : s.ownerId = req[r].auth.id
            /\ \A f \in req[r].found :
                  /\ f.store.ownerId = req[r].auth.id
                  /\ \A x \in f.ratings : x.storeId = f.store.id
            /\ \A e \in req[r].data :
                  /\ e.ownerId = req[r].auth.id
                  /\ \A x \in e.ratings : x.storeId = e.id

\* the owner has been answered with a store of theirs, while a store of
\* somebody else exists and has a rating
C15_Witness ==
    /\ req["r1"].op = "ownerStores" /\ req["r1"].status = 200
    /\ req["r1"].data # {}
    /\ \E s \in stores :
          /\ s.ownerId # req["r1"].auth.id
          /\ RatingsOfStore(s.id) # {}

(***************************************************************************)
(* C16. No response carries a password credential: the users of the user   *)
(* list and of the login answer, the owner of each store of the admin      *)
(* store list and the user of each rating of the owner dashboard have no   *)
(* password field.                                                         *)
(***************************************************************************)
HasPassword(u) == "password" \in DOMAIN u

C16_NoPasswordInResponses ==
    \A r \in Reqs :
        /\ req[r].op = "users" => \A u \in req[r].data : ~HasPassword(u)
        /\ req[r].op = "login" => ~HasPassword(req[r].user)
        /\ req[r].op = "adminStores" => \A e \in req[r].data : ~HasPassword(e.owner)
        /\ req[r].op = "ownerStores" =>
              \A e \in req[r].data : \A x \in e.ratings : ~HasPassword(x.user)

(***************************************************************************)
(* C17. No two User rows share an email, in every reachable state; a       *)
(* well-formed signup or admin user creation whose email belongs to a User *)
(* when the handler looks it up is answered 409 email_exists, and no       *)
(* request answered so, or received at all, changes the users in the step  *)
(* that receives it.                                                       *)
(***************************************************************************)
C17_UniqueEmails ==
    \A u \in users : \A v \in users : u.email = v.email => u = v

EmailTaken(addr) == \E u \in users : u.email = addr

C17_ConflictStep ==
    \A r \in Reqs :
        (req[r] = Idle /\ req'[r].op \in {"signup", "adminUser"}) =>
            /\ users' = users
            /\ req'[r].pc = "create" => ~EmailTaken(req'[r].email)
            /\ req'[r].status = 409 =>
                  req'[r].err = "email_exists" /\ EmailTaken(req'[r].email)

C17_DuplicateEmailConflict == [](C17_UniqueEmails) /\ [][C17_ConflictStep]_vars

\* a signup with the email of a seed user has been answered 409 while the
\* other request context has created a user
C17_Witness ==
    /\ \E r \in Reqs :
          /\ req[r].op = "signup" /\ req[r].status = 409
          /\ req[r].email = "user1@x"
    /\ Cardinality(users) > Cardinality(InitUsers)

(***************************************************************************)
(* C18. Every rating request that passed authentication is eventually      *)
(* answered: with the created or updated Rating (200) or with an error     *)
(* status and kind, also when the database call of its write step fails    *)
(* (foreign key on an unknown store, unique index on the pair).            *)
(***************************************************************************)
Answered(q) == q.op = "rating" /\ q.pc = "done" /\ q.status # 0

C18_EveryRatingAnswered ==
    \A r \in Reqs :
        (req[r].op = "rating" /\ req[r].pc = "write") ~> Answered(req[r])

(***************************************************************************)
(* C19. The user list asked with a role other than "all" and a search text *)
(* q is answered with exactly the users of that role whose name, email or  *)
(* address contains q ignoring case (hence the same users for every casing *)
(* of q), and with no user of another role.                                *)
(***************************************************************************)
Matches(text, q) == includes(toLowerCase(Chars(text)), toLowerCase(Chars(q)))

UsersMatching(role, q) ==
    {u \in users :
        /\ u.role = role
        /\ Matches(u.name, q) \/ Matches(u.email, q) \/ Matches(u.address, q)}

C19_ListUsersFiltered ==
    \A r \in Reqs :
        ( /\ req[r].op = "users"
          /\ req[r].auth.kind = "valid" /\ req[r].auth.role = "admin"
          /\ req[r].role \notin {"", "all"} /\ req[r].q # NoQuery )
        => /\ req[r].status = 200
           /\ req[r].data = {PublicUser(u) : u \in UsersMatching(req[r].role, req[r].q)}

(***************************************************************************)
(* C20. A store list asked with a search text q is answered with exactly   *)
(* the stores whose name or address contains q ignoring case, and in the   *)
(* admin list also those whose owner's email contains q ignoring case.     *)
(***************************************************************************)
StoresMatching(op, q) ==
    {s \in stores :
        \/ Matches(s.name, q)
        \/ Matches(s.address, q)
        \/ /\ op = "adminStores"
           /\ \E u \in users : u.id = s.ownerId /\ Matches(u.email, q)}

C20_ListStoresFiltered ==
    \A r \in Reqs :
        ( /\ req[r].op \in {"stores", "adminStores"}
          /\ req[r].pc = "done" /\ req[r].q # NoQuery )
        => /\ req[r].status = 200
           /\ {e.id : e \in req[r].data} = {s.id : s \in StoresMatching(req[r].op, req[r].q)}

(***************************************************************************)
(* C21. The admin store list asked with a sort field of {name, address,    *)
(* rating, createdAt} is answered 200; with the sort field rating the      *)
(* stores of the answer are in the order of their average rating (a store  *)
(* without ratings counting as 0), ascending for asc and descending for    *)
(* desc.                                                                   *)
(***************************************************************************)
\* a <= b for two fractions of positive denominators
FracLeq(a, b) == a.num * b.den <= b.num * a.den

AverageIn(data, id) == (CHOOSE e \in data : e.id = id).averageRating

C21_SortByRating ==
    \A r \in Reqs :
        ( /\ req[r].op = "adminStores" /\ req[r].pc = "done"
          /\ req[r].auth.kind = "valid" /\ req[r].auth.role = "admin"
          /\ req[r].sortField \in SortFields )
        => /\ req[r].status = 200
           /\ Len(req[r].order) = Cardinality(req[r].data)
           /\ req[r].sortField = "rating" =>
                 \A i \in DOMAIN req[r].order : \A j \in DOMAIN req[r].order :
                     i < j =>
                         LET a == AverageIn(req[r].data, req[r].order[i])
                             b == AverageIn(req[r].data, req[r].order[j])
                         IN  IF req[r].sortOrder = "asc" THEN FracLeq(a, b)
                             ELSE FracLeq(b, a)

C30_PageInRange ==
    view.route \in {"users", "stores"} =>
        LET pages == totalPages(Len(filtered))
        IN  /\ view.currentPage >= 1
            /\ view.currentPage <= (IF pages > 1 THEN pages ELSE 1)
            /\ filtered # <<>> => paginated(filtered, view.currentPage) # <<>>

(***************************************************************************)
(* C23. No step changes the role of an existing User, nor its id, name,    *)
(* email or address: a password update changes the password and nothing    *)
(* else; and a User created by a signup request has the role normal_user.  *)
(***************************************************************************)
C23_Step ==
    /\ \A u \in users :
          \E v \in users' :
              /\ v.id = u.id /\ v.role = u.role
              /\ v.name = u.name /\ v.email = u.email /\ v.address = u.address
    /\ \A v \in users' :
          ( /\ \A u \in users : u.id # v.id
            /\ \E r \in Reqs : req[r].op = "signup" /\ req[r].pc = "create" /\ req'[r].pc = "done" )
          => v.role = "normal_user"

C23_RoleNeverChanges == [][C23_Step]_vars

\* a password update has been answered 200 and changed a password, and a
\* user created by signup exists
C23_Witness ==
    /\ req["r1"].op = "password" /\ req["r1"].status = 200
    /\ \E u \in users : u.id = req["r1"].id /\ u.password = hashPassword("Fresh@123")
    /\ \E u \in users : u.id \notin {i.id : i \in InitUsers} /\ u.role = "normal_user"

(***************************************************************************)
(* C24. A password update whose :id is not the id of the caller's token    *)
(* leaves the password of every User as it was.                            *)
(***************************************************************************)
C24_Step ==
    \A r \in Reqs :
        ( /\ req[r] = Idle /\ req'[r].op = "password"
          /\ req'[r].auth.kind = "valid"
          /\ req'[r].id # req'[r].auth.id )
        => \A u \in users : \E v \in users' : v.id = u.id /\ v.password = u.password

C24_PasswordOnlyOwn == [][C24_Step]_vars

(***************************************************************************)
(* C25. A signup or admin user creation that went past the email lookup    *)
(* is answered: with the created user (200), or, when another request      *)
(* inserted the same email in between, with 409 email_exists; and exactly  *)
(* one User has its email.                                                 *)
(***************************************************************************)
C25_SignupRaceConflict ==
    \A r \in Reqs :
        ( /\ req[r].op \in {"signup", "adminUser"} /\ req[r].pc = "done"
          /\ req[r].name # "-" )
        => /\ \/ req[r].status = 200
              \/ req[r].status = 409 /\ req[r].err = "email_exists"
           /\ Cardinality({u \in users : u.email = req[r].email}) = 1

(***************************************************************************)
(* C26. Each store of an owner dashboard answer is consistent in itself,   *)
(* also when ratings of the store are submitted while it is read: its      *)
(* totalRatings is the number of ratings returned with it and its          *)
(* averageRating is their mean, 0 when there are none.                     *)
(***************************************************************************)
MeanIs(avg, rows) ==
    IF rows = {} THEN avg.num = 0
    ELSE avg.num * Cardinality(rows) = SumOf(rows) * avg.den

C26_DashboardConsistent ==
    \A r \in Reqs :
        (req[r].op = "ownerStores" /\ req[r].pc = "done" /\ req[r].status = 200) =>
            \A e \in req[r].data :
                /\ e.totalRatings = Cardinality(e.ratings)
                /\ MeanIs(e.averageRating, e.ratings)

(***************************************************************************)
(* C27: with the server-backed provider, after any sequence of             *)
(* handleSubmitRating the local ratings hold at most one entry per         *)
(* (userId, storeId) and no two entries with the same id.                  *)
(***************************************************************************)
C27_LedgerUnique ==
    \A i, j \in 1..Len(cRatings) :
        i # j =>
            /\ cRatings[i].id # cRatings[j].id
            /\ ~(cRatings[i].userId = cRatings[j].userId
                    /\ cRatings[i].storeId = cRatings[j].storeId)

(***************************************************************************)
(* C28: with the server-backed provider, when the server answers the       *)
(* creation of a rating, a store or a user with a response that is not ok, *)
(* the local arrays are left as they were.                                 *)
(***************************************************************************)
C28_Step ==
    (/\ call.fn \in {"addRating", "addStore", "addUser"}
     /\ call' = NoCall
     /\ ~ok(req["r1"].status))
        => /\ cRatings' = cRatings
           /\ cStores' = cStores
           /\ cUsers' = cUsers

C28_RefusedLeavesLocal == [][C28_Step]_vars

(***************************************************************************)
(* C29: a user who has just signed up has no rating for any store before   *)
(* their own first submission: getUserRating(id, s) is undefined for every *)
(* store s.                                                                *)
(***************************************************************************)
C29_Step ==
    Len(auth'.mockUsers) > Len(auth.mockUsers)
        => \A s \in ClientStoreIds : getUserRating(auth'.user.id, s) = 0

C29_NewUserHasNoRating == [][C29_Step]_vars

====
